---- MODULE Spec2Model ----
(***************************************************************************)
(* Smart-Campus backend: the anomaly / alert rule engine                   *)
(* (app/anomaly_detection.py) and the request handlers that feed it or     *)
(* change what it reads (routers/readings.py, routers/alerts.py,           *)
(* app/ingestion.py).                                                      *)
(*                                                                         *)
(* Numbers.  Reading values, thresholds and rule parameters are floats in  *)
(* the program; here they are integers and every comparison the code makes *)
(* on a quotient or a square root is made on the cross-multiplied integer  *)
(* form, which is the comparison over the reals.  reading_date is counted  *)
(* in half days, so that two readings can fall on the same day.            *)
(***************************************************************************)
EXTENDS Integers, Sequences, FiniteSets, TLC

VARIABLES
    buildings,   \* table buildings: set of rows
    readings,    \* table utility_readings: rows in id order
    alerts,      \* table alerts: rows in id order (the id is the position)
    rules,       \* table alert_rules: rows in id order
    next_id,     \* the next id of a reading, a rule, a building; the count of repeated calls
    last,        \* what the latest request did (history, for the properties)
    sessions     \* the open transaction of each concurrent request, if any

vars == <<buildings, readings, alerts, rules, next_id, last, sessions>>

----------------------------------------------------------------------------
(* Bounds of the model *)

MaxReadings == 4
MaxRules == 2

(* None of a nullable integer column; Python's "not x" is also true of 0 *)
None == 0
NoZone == "none"

WATER == "water"
ELECTRICITY == "electricity"
UtilityType == {WATER, ELECTRICITY}

PENDING == "pending"
ACKNOWLEDGED == "acknowledged"
RESOLVED == "resolved"

THRESHOLD_BREACH == "threshold_breach"
SPIKE == "spike"
CONTINUOUS_HIGH == "continuous_high"
RULE_TRIGGER == "rule_trigger"

----------------------------------------------------------------------------
(* Helpers *)

Range(s) == {s[i] : i \in DOMAIN s}

Min(a, b) == IF a < b THEN a ELSE b

Max(a, b) == IF a > b THEN a ELSE b

RECURSIVE SeqSum(_)
SeqSum(s) == IF s = <<>> THEN 0 ELSE Head(s) + SeqSum(Tail(s))

(* timedelta(days=n), in half days *)
timedelta(days) == days * 2

(* the calendar day of a reading_date *)
DayOf(t) == t \div 2

----------------------------------------------------------------------------
(* The session.  app/database.py is not part of the sources at hand: the   *)
(* session is the one the specification describes, where an added alert    *)
(* becomes visible to the queries of the transaction when it is flushed.   *)

Autoflush == FALSE

(* The rows a query on alerts sees: the flushed ones, and the added ones   *)
(* as well when the session flushes before each query.                     *)
VisibleAlerts(db, created) ==
    IF Autoflush THEN db.alerts \o created ELSE db.alerts

----------------------------------------------------------------------------
(* statistics.mean / statistics.stdev over a list of values.               *)
(* With n = len(values) and S = sum(values):                               *)
(*   mean = S / n,   stdev = sqrt(Dev / (n * n * (n - 1)))                 *)
(* where Dev = sum of (n * x - S)^2.                                       *)

SqDev(values) ==
    LET n == Len(values)
        S == SeqSum(values)
    IN  SeqSum([i \in 1..n |-> (n * values[i] - S) * (n * values[i] - S)])

(* stdev > 0, with stdev = 0 for fewer than two values *)
StdevPositive(values) == Len(values) > 1 /\ SqDev(values) > 0

(* (value - mean) / stdev > num / den, for stdev > 0 and den > 0 *)
ZScoreAbove(value, values, num, den) ==
    LET n == Len(values)
        d == n * value - SeqSum(values)
        lhs == den * den * (n - 1) * d * d
        rhs == num * num * SqDev(values)
    IN  IF num >= 0
        THEN d > 0 /\ lhs > rhs
        ELSE d >= 0 \/ lhs < rhs

----------------------------------------------------------------------------
(* Rows *)

Alert(building_id, alert_type, utility_type, message, severity, reading_id) ==
    [ building_id  |-> building_id,
      alert_type   |-> alert_type,
      utility_type |-> utility_type,
      message      |-> message,
      severity     |-> severity,
      reading_id   |-> reading_id,
      status       |-> PENDING,
      acknowledged_by |-> None,
      resolved_by  |-> None ]

UtilityReading(id, building_id, utility_type, value, reading_date) ==
    [ id           |-> id,
      building_id  |-> building_id,
      utility_type |-> utility_type,
      value        |-> value,
      reading_date |-> reading_date ]

(* a building whose name is its code *)
Building(id, code, water_threshold, electricity_threshold, zone) ==
    [ id |-> id, name |-> code, code |-> code,
      water_threshold |-> water_threshold,
      electricity_threshold |-> electricity_threshold, zone |-> zone ]

(* db.query(Building).filter(Building.id == id).first() *)
HasBuilding(db, id) == \E b \in db.buildings : b.id = id

BuildingById(db, id) == CHOOSE b \in db.buildings : b.id = id

(* readings of one building and utility *)
SameSeries(db, reading) ==
    SelectSeq(db.readings, LAMBDA r :
        /\ r.building_id = reading.building_id
        /\ r.utility_type = reading.utility_type)

ValuesOf(rs) == [i \in 1..Len(rs) |-> rs[i].value]

(* ORDER BY reading_date DESC: rows of equal reading_date come in an order *)
(* the database chooses; tb names it (by id ascending or descending).      *)
TieBreaks == {"asc", "desc"}

Before(r1, r2, tb) ==
    \/ r1.reading_date > r2.reading_date
    \/ /\ r1.reading_date = r2.reading_date
       /\ IF tb = "asc" THEN r1.id < r2.id ELSE r1.id > r2.id

RECURSIVE order_by_date_desc(_, _)
order_by_date_desc(S, tb) ==
    IF S = {} THEN <<>>
    ELSE LET m == CHOOSE r \in S : \A o \in S \ {r} : Before(r, o, tb)
         IN  <<m>> \o order_by_date_desc(S \ {m}, tb)

limit(s, n) == SubSeq(s, 1, Min(n, Len(s)))

----------------------------------------------------------------------------
(* check_anomalies: the three built-in detectors *)

BuildingThreshold(building, reading) ==
    IF reading.utility_type = WATER
    THEN building.water_threshold
    ELSE building.electricity_threshold

(* 1. threshold breach *)
ThresholdBreach_inclusive(db, reading, building) ==
    LET threshold == BuildingThreshold(building, reading)
    IN  IF reading.value >= threshold
        THEN << Alert(reading.building_id, THRESHOLD_BREACH, reading.utility_type,
                      <<"exceeds", reading.value, threshold>>, "high", reading.id) >>
        ELSE << >>

(* as if the detector skipped a reading that already has its alert *)
ThresholdBreach_once(db, reading, building) ==
    LET threshold == BuildingThreshold(building, reading)
    IN  IF /\ reading.value > threshold
           /\ ~ \E i \in DOMAIN db.alerts :
                    /\ db.alerts[i].reading_id = reading.id
                    /\ db.alerts[i].alert_type = THRESHOLD_BREACH
        THEN << Alert(reading.building_id, THRESHOLD_BREACH, reading.utility_type,
                      <<"exceeds", reading.value, threshold>>, "high", reading.id) >>
        ELSE << >>

ThresholdBreach(db, reading, building) ==
    LET threshold == BuildingThreshold(building, reading)
    IN  IF reading.value > threshold
        THEN << Alert(reading.building_id, THRESHOLD_BREACH, reading.utility_type,
                      <<"exceeds", reading.value, threshold>>, "high", reading.id) >>
        ELSE << >>

(* 2. spike against the other readings of the last 7 days *)
SpikeBaseline_with_self(db, reading) ==
    SelectSeq(SameSeries(db, reading), LAMBDA r :
        r.reading_date >= reading.reading_date - timedelta(7))

SpikeBaseline(db, reading) ==
    SelectSeq(SameSeries(db, reading), LAMBDA r :
        /\ r.id # reading.id
        /\ r.reading_date >= reading.reading_date - timedelta(7))

Spike(db, reading, building) ==
    LET recent_readings == SpikeBaseline(db, reading)
        values == ValuesOf(recent_readings)
    IN  IF /\ Len(recent_readings) >= 3
           /\ StdevPositive(values)
           /\ ZScoreAbove(reading.value, values, 5, 2)
        THEN << Alert(reading.building_id, SPIKE, reading.utility_type,
                      <<"spike", reading.value>>, "medium", reading.id) >>
        ELSE << >>

(* 3. continuous high usage: readings of the last 3 days above 80% of the *)
(* threshold (value > threshold * 0.8, that is 5 * value > 4 * threshold) *)
RecentDays(db, reading, building) ==
    LET threshold == BuildingThreshold(building, reading)
    IN  SelectSeq(SameSeries(db, reading), LAMBDA r :
            /\ r.reading_date >= reading.reading_date - timedelta(3)
            /\ 5 * r.value > 4 * threshold)

(* as if an alert of any status, resolved included, suppressed a new one *)
PendingContinuousHigh_any_status(seen, reading) ==
    \E i \in DOMAIN seen :
        /\ seen[i].building_id = reading.building_id
        /\ seen[i].utility_type = reading.utility_type
        /\ seen[i].alert_type = CONTINUOUS_HIGH

PendingContinuousHigh(seen, reading) ==
    \E i \in DOMAIN seen :
        /\ seen[i].building_id = reading.building_id
        /\ seen[i].utility_type = reading.utility_type
        /\ seen[i].alert_type = CONTINUOUS_HIGH
        /\ seen[i].status = PENDING

ContinuousHigh_no_dedup(db, reading, building, created) ==
    LET recent_days == RecentDays(db, reading, building)
    IN  IF Len(recent_days) >= 3
        THEN << Alert(reading.building_id, CONTINUOUS_HIGH, reading.utility_type,
                      <<"continuous", Len(recent_days)>>, "medium", reading.id) >>
        ELSE << >>

ContinuousHigh(db, reading, building, created) ==
    LET recent_days == RecentDays(db, reading, building)
    IN  IF /\ Len(recent_days) >= 3
           /\ ~ PendingContinuousHigh(VisibleAlerts(db, created), reading)
        THEN << Alert(reading.building_id, CONTINUOUS_HIGH, reading.utility_type,
                      <<"continuous", Len(recent_days)>>, "medium", reading.id) >>
        ELSE << >>

StaticAlerts(db, reading, building) ==
    LET a1 == ThresholdBreach(db, reading, building)
        a2 == a1 \o Spike(db, reading, building)
    IN  a2 \o ContinuousHigh(db, reading, building, a2)

----------------------------------------------------------------------------
(* check_anomalies: the administrator's rules *)

AlertRule(id, payload) ==
    [ id                     |-> id,
      is_active              |-> payload.is_active,
      scope_type             |-> payload.scope_type,
      building_id            |-> payload.building_id,
      zone                   |-> payload.zone,
      utility_type           |-> payload.utility_type,
      condition_type         |-> payload.condition_type,
      threshold_value        |-> payload.threshold_value,
      comparison_window_days |-> payload.comparison_window_days,
      consecutive_count      |-> payload.consecutive_count,
      severity               |-> payload.severity ]

(* as if the filter on is_active were left out *)
ActiveRules_also_inactive(db, reading) ==
    SelectSeq(db.rules, LAMBDA rule : rule.utility_type = reading.utility_type)

ActiveRules(db, reading) ==
    SelectSeq(db.rules, LAMBDA rule :
        rule.is_active /\ rule.utility_type = reading.utility_type)

(* the two "continue" of the scope matching *)
ScopeApplies(rule, reading, building) ==
    /\ ~ (rule.scope_type = "building" /\ rule.building_id # reading.building_id)
    /\ ~ (rule.scope_type = "zone" /\ building.zone # rule.zone)

(* int(x or 1) *)
IntOr1(x) == IF x = None THEN 1 ELSE x

ThresholdCondition(db, reading, rule, tb) ==
    IF IntOr1(rule.consecutive_count) > 1
    THEN LET recent == limit(order_by_date_desc(Range(SameSeries(db, reading)), tb),
                             rule.consecutive_count)
         IN  /\ Len(recent) >= rule.consecutive_count
             /\ \A i \in DOMAIN recent : recent[i].value > rule.threshold_value
    ELSE reading.value > rule.threshold_value

(* as if the window were the 7 days of the spike detector *)
ZscoreCondition_week(db, reading, rule) ==
    LET recent == SelectSeq(SameSeries(db, reading), LAMBDA r :
                      /\ r.id # reading.id
                      /\ r.reading_date >= reading.reading_date - timedelta(7))
        values == ValuesOf(recent)
    IN  /\ Len(recent) >= 3
        /\ StdevPositive(values)
        /\ ZScoreAbove(reading.value, values, rule.threshold_value, 1)

ZscoreCondition(db, reading, rule) ==
    LET window_days == Max(1, IntOr1(rule.comparison_window_days))
        recent == SelectSeq(SameSeries(db, reading), LAMBDA r :
                      /\ r.id # reading.id
                      /\ r.reading_date >= reading.reading_date - timedelta(window_days))
        values == ValuesOf(recent)
    IN  /\ Len(recent) >= 3
        /\ StdevPositive(values)
        /\ ZScoreAbove(reading.value, values, rule.threshold_value, 1)

(* as if the previous reading were any other one not dated later *)
RateOfChangeCondition_not_later(db, reading, rule, tb) ==
    LET earlier == {r \in Range(SameSeries(db, reading)) :
                       r.id # reading.id /\ r.reading_date <= reading.reading_date}
        prev == Head(order_by_date_desc(earlier, tb))
    IN  /\ earlier # {}
        /\ prev.value > 0
        /\ 100 * (reading.value - prev.value) > rule.threshold_value * prev.value

(* pct = ((value - prev.value) / prev.value) * 100 > threshold_value *)
RateOfChangeCondition(db, reading, rule, tb) ==
    LET earlier == {r \in Range(SameSeries(db, reading)) :
                       r.id # reading.id /\ r.reading_date < reading.reading_date}
        prev == Head(order_by_date_desc(earlier, tb))
    IN  /\ earlier # {}
        /\ prev.value > 0
        /\ 100 * (reading.value - prev.value) > rule.threshold_value * prev.value

(* as if an unknown condition_type were evaluated like a threshold *)
Triggered_unknown_as_threshold(db, reading, rule, tb) ==
    CASE rule.condition_type = "zscore" -> ZscoreCondition(db, reading, rule)
      [] rule.condition_type = "rate_of_change" -> RateOfChangeCondition(db, reading, rule, tb)
      [] OTHER -> ThresholdCondition(db, reading, rule, tb)

Triggered(db, reading, rule, tb) ==
    CASE rule.condition_type = "threshold" -> ThresholdCondition(db, reading, rule, tb)
      [] rule.condition_type = "zscore" -> ZscoreCondition(db, reading, rule)
      [] rule.condition_type = "rate_of_change" -> RateOfChangeCondition(db, reading, rule, tb)
      [] OTHER -> FALSE

PendingRuleTrigger(seen, reading) ==
    \E i \in DOMAIN seen :
        /\ seen[i].reading_id = reading.id
        /\ seen[i].alert_type = RULE_TRIGGER
        /\ seen[i].status = PENDING

friendly_message(reading, rule) ==
    CASE rule.condition_type = "threshold" ->
             <<"exceeded", reading.value, rule.threshold_value>>
      [] rule.condition_type = "zscore" -> <<"deviated", reading.value>>
      [] OTHER -> <<"changed">>

(* severity=rule.severity or "medium" *)
SeverityOf(rule) == IF rule.severity = "" THEN "medium" ELSE rule.severity

(* as if the alerts added earlier in the call were seen by the query *)
RuleStep_sees_added(db, reading, building, rule, acc, tb) ==
    IF ~ ScopeApplies(rule, reading, building) THEN acc
    ELSE IF ~ Triggered(db, reading, rule, tb) THEN acc
    ELSE IF PendingRuleTrigger(db.alerts \o acc.created, reading)
         THEN [acc EXCEPT !.triggered = @ \cup {rule.id}]
    ELSE [ created   |-> Append(acc.created,
                                Alert(reading.building_id, RULE_TRIGGER, reading.utility_type,
                                      friendly_message(reading, rule), SeverityOf(rule),
                                      reading.id)),
           triggered |-> acc.triggered \cup {rule.id},
           fired     |-> Append(acc.fired, rule.id) ]

(* as if the query for a pending rule_trigger alert were left out *)
RuleStep_no_dedup(db, reading, building, rule, acc, tb) ==
    IF ~ ScopeApplies(rule, reading, building) THEN acc
    ELSE IF ~ Triggered(db, reading, rule, tb) THEN acc
    ELSE [ created   |-> Append(acc.created,
                                Alert(reading.building_id, RULE_TRIGGER, reading.utility_type,
                                      friendly_message(reading, rule), SeverityOf(rule),
                                      reading.id)),
           triggered |-> acc.triggered \cup {rule.id},
           fired     |-> Append(acc.fired, rule.id) ]

(* One pass of "for rule in active_rules".  acc.created is alerts_created; *)
(* acc.triggered (the rules whose condition held) and acc.fired (the rule  *)
(* of each rule_trigger alert, in order) record the loop for the checks.   *)
RuleStep(db, reading, building, rule, acc, tb) ==
    IF ~ ScopeApplies(rule, reading, building) THEN acc
    ELSE IF ~ Triggered(db, reading, rule, tb) THEN acc
    ELSE IF PendingRuleTrigger(VisibleAlerts(db, acc.created), reading)
         THEN [acc EXCEPT !.triggered = @ \cup {rule.id}]
    ELSE [ created   |-> Append(acc.created,
                                Alert(reading.building_id, RULE_TRIGGER, reading.utility_type,
                                      friendly_message(reading, rule), SeverityOf(rule),
                                      reading.id)),
           triggered |-> acc.triggered \cup {rule.id},
           fired     |-> Append(acc.fired, rule.id) ]

RECURSIVE RuleLoop(_, _, _, _, _, _)
RuleLoop(db, reading, building, active_rules, acc, tb) ==
    IF active_rules = <<>> THEN acc
    ELSE RuleLoop(db, reading, building, Tail(active_rules),
                  RuleStep(db, reading, building, Head(active_rules), acc, tb), tb)

NoAlerts == [created |-> <<>>, triggered |-> {}, fired |-> <<>>]

(* as if the rules were evaluated although the building was not found *)
check_anomalies_without_building(db, reading, tb) ==
    IF ~ HasBuilding(db, reading.building_id)
    THEN RuleLoop(db, reading, [zone |-> NoZone], ActiveRules(db, reading), NoAlerts, tb)
    ELSE LET building == BuildingById(db, reading.building_id)
         IN  RuleLoop(db, reading, building, ActiveRules(db, reading),
                      [NoAlerts EXCEPT !.created = StaticAlerts(db, reading, building)],
                      tb)

(* check_anomalies(db, reading): what the call adds to the session *)
check_anomalies(db, reading, tb) ==
    IF ~ HasBuilding(db, reading.building_id) THEN NoAlerts
    ELSE LET building == BuildingById(db, reading.building_id)
         IN  RuleLoop(db, reading, building, ActiveRules(db, reading),
                      [NoAlerts EXCEPT !.created = StaticAlerts(db, reading, building)],
                      tb)

(* "if alerts_created: db.flush()" *)
(* as if the call resolved the pending alerts it found when it adds one *)
Flush_superseding(db, result) ==
    IF result.created = <<>> THEN db
    ELSE [db EXCEPT !.alerts =
             [i \in DOMAIN @ |-> IF @[i].status = PENDING
                                 THEN [@[i] EXCEPT !.status = RESOLVED]
                                 ELSE @[i]] \o result.created]

Flush(db, result) == [db EXCEPT !.alerts = @ \o result.created]

----------------------------------------------------------------------------
(* The session of a request, and its commit *)

(* a request-scoped session without open transaction *)
Idle == [phase |-> "idle"]

Sessions == {1, 2}

NoSessions == [s \in Sessions |-> Idle]

DB ==
    [ buildings |-> buildings, readings |-> readings, alerts |-> alerts, rules |-> rules ]

Commit(db) ==
    /\ buildings' = db.buildings
    /\ readings' = db.readings
    /\ alerts' = db.alerts
    /\ rules' = db.rules
    /\ UNCHANGED sessions

NoCall == [op |-> "none"]

CheckCall(reading, result, repeat) ==
    [ op        |-> "check",
      reading   |-> reading,
      repeat    |-> repeat,
      created   |-> result.created,
      triggered |-> result.triggered,
      fired     |-> result.fired ]

----------------------------------------------------------------------------
(* POST /readings: create_reading, through create_reading_from_payload *)

create_reading_from_payload(db, reading, tb) ==
    LET db1 == [db EXCEPT !.readings = Append(@, reading)]
    IN  Flush(db1, check_anomalies(db1, reading, tb))

create_reading(building_id, utility_type, value, reading_date, tb) ==
    /\ next_id.reading <= MaxReadings
    /\ IF ~ HasBuilding(DB, building_id)
       THEN UNCHANGED vars
       ELSE LET reading == UtilityReading(next_id.reading, building_id, utility_type,
                                          value, reading_date)
                db1 == [DB EXCEPT !.readings = Append(@, reading)]
                result == check_anomalies(db1, reading, tb)
            IN  /\ Commit(create_reading_from_payload(DB, reading, tb))
                /\ next_id' = [next_id EXCEPT !.reading = @ + 1]
                /\ last' = CheckCall(reading, result, FALSE)

----------------------------------------------------------------------------
(* PUT /alerts/{alert_id}/acknowledge and /resolve, by the user CurrentUser *)

CurrentUser == 1

(* as if a resolved alert could be acknowledged *)
acknowledge_alert_also_resolved(alert_id) ==
    IF alert_id \notin DOMAIN alerts THEN UNCHANGED vars
    ELSE /\ alerts' = [alerts EXCEPT ![alert_id].status = ACKNOWLEDGED,
                                     ![alert_id].acknowledged_by = CurrentUser]
         /\ last' = [op |-> "acknowledge", alert_id |-> alert_id]
         /\ UNCHANGED <<buildings, readings, rules, next_id, sessions>>

acknowledge_alert(alert_id) ==
    IF alert_id \notin DOMAIN alerts THEN UNCHANGED vars
    ELSE IF alerts[alert_id].status = RESOLVED THEN UNCHANGED vars
    ELSE /\ alerts' = [alerts EXCEPT ![alert_id].status = ACKNOWLEDGED,
                                     ![alert_id].acknowledged_by = CurrentUser]
         /\ last' = [op |-> "acknowledge", alert_id |-> alert_id]
         /\ UNCHANGED <<buildings, readings, rules, next_id, sessions>>

resolve_alert(alert_id) ==
    IF alert_id \notin DOMAIN alerts THEN UNCHANGED vars
    ELSE /\ alerts' = [alerts EXCEPT ![alert_id].status = RESOLVED,
                                     ![alert_id].resolved_by = CurrentUser]
         /\ last' = [op |-> "resolve", alert_id |-> alert_id]
         /\ UNCHANGED <<buildings, readings, rules, next_id, sessions>>

----------------------------------------------------------------------------
(* /alerts/rules: create_alert_rule, update_alert_rule, delete_alert_rule. *)
(* A payload is an AlertRuleCreate with the defaults of the schema filled  *)
(* in; update_data holds the fields the request sets.                      *)

ScopeTypes == {"global", "zone", "building"}
ConditionTypes == {"threshold", "zscore", "rate_of_change"}

create_alert_rule(payload) ==
    /\ next_id.rule <= MaxRules
    /\ IF \/ payload.scope_type \notin ScopeTypes
          \/ payload.condition_type \notin ConditionTypes
          \/ (payload.scope_type = "building" /\ payload.building_id = None)
          \/ (payload.scope_type = "zone" /\ payload.zone = NoZone)
          \/ (payload.building_id # None /\ ~ HasBuilding(DB, payload.building_id))
       THEN UNCHANGED vars
       ELSE /\ rules' = Append(rules, AlertRule(next_id.rule, payload))
            /\ next_id' = [next_id EXCEPT !.rule = @ + 1]
            /\ last' = [op |-> "create_rule", rule_id |-> next_id.rule]
            /\ UNCHANGED <<buildings, readings, alerts, sessions>>

HasRule(rule_id) == \E i \in DOMAIN rules : rules[i].id = rule_id

RuleIndex(rule_id) == CHOOSE i \in DOMAIN rules : rules[i].id = rule_id

Has(update_data, field) == field \in DOMAIN update_data

(* "for field, value in update_data.items(): setattr(rule, field, value)" *)
SetAttrs(rule, update_data) ==
    [field \in DOMAIN rule |->
        IF Has(update_data, field) THEN update_data[field] ELSE rule[field]]

(* as if the two membership tests of the update were left out *)
update_alert_rule_unchecked(rule_id, update_data) ==
    IF ~ HasRule(rule_id) THEN UNCHANGED vars
    ELSE /\ rules' = [rules EXCEPT ![RuleIndex(rule_id)] = SetAttrs(@, update_data)]
         /\ last' = [op |-> "update_rule", rule_id |-> rule_id]
         /\ UNCHANGED <<buildings, readings, alerts, next_id, sessions>>

update_alert_rule(rule_id, update_data) ==
    IF ~ HasRule(rule_id) THEN UNCHANGED vars
    ELSE IF \/ (Has(update_data, "scope_type") /\ update_data.scope_type \notin ScopeTypes)
            \/ (Has(update_data, "condition_type")
                    /\ update_data.condition_type \notin ConditionTypes)
            \/ (Has(update_data, "building_id") /\ update_data.building_id # None
                    /\ ~ HasBuilding(DB, update_data.building_id))
         THEN UNCHANGED vars
    ELSE /\ rules' = [rules EXCEPT ![RuleIndex(rule_id)] = SetAttrs(@, update_data)]
         /\ last' = [op |-> "update_rule", rule_id |-> rule_id]
         /\ UNCHANGED <<buildings, readings, alerts, next_id, sessions>>

delete_alert_rule(rule_id) ==
    IF ~ HasRule(rule_id) THEN UNCHANGED vars
    ELSE /\ rules' = SelectSeq(rules, LAMBDA rule : rule.id # rule_id)
         /\ last' = [op |-> "delete_rule", rule_id |-> rule_id]
         /\ UNCHANGED <<buildings, readings, alerts, next_id, sessions>>

----------------------------------------------------------------------------
(* check_anomalies called again on a reading that is already stored, in a  *)
(* transaction of its own.  repeat: the call before it, with nothing in    *)
(* between, was a call on the same reading.                                *)

MaxAgain == 1

HasReading(reading_id) == \E i \in DOMAIN readings : readings[i].id = reading_id

ReadingById(reading_id) == CHOOSE r \in Range(readings) : r.id = reading_id

check_again(reading_id, tb) ==
    /\ HasReading(reading_id)
    /\ next_id.again <= MaxAgain
    /\ LET reading == ReadingById(reading_id)
           result == check_anomalies(DB, reading, tb)
       IN  /\ Commit(Flush(DB, result))
           /\ last' = CheckCall(reading, result,
                                last.op = "check" /\ last.reading.id = reading_id)
           /\ next_id' = [next_id EXCEPT !.again = @ + 1]

----------------------------------------------------------------------------
(* POST /admin/import-readings: import_readings.  A row is "bad" (a value  *)
(* or timestamp that does not parse, an unknown utility) or a tuple        *)
(* <<building label, utility, value, timestamp>>.  The labels of the model *)
(* are upper-case alphanumeric and at most 16 characters long, so that the *)
(* code derived from a label that names no building is the label itself,   *)
(* and free.                                                               *)

BadRow == <<"bad">>

DefaultWaterThreshold == 10000
DefaultElectricityThreshold == 5000

HasLabel(db, label) == \E b \in db.buildings : b.code = label \/ b.name = label

BuildingByLabel(db, label) == CHOOSE b \in db.buildings : b.code = label \/ b.name = label

(* One pass of the row loop.  st.db is the session, st.committed what      *)
(* db.rollback() returns to, st.ids the id counters.                       *)
ImportRow(st, row, tb) ==
    IF row = BadRow
    THEN [st EXCEPT !.db = st.committed,
                    !.failed_count = @ + 1]
    ELSE LET found == HasLabel(st.db, row[1])
             building == IF found THEN BuildingByLabel(st.db, row[1])
                         ELSE Building(st.ids.building, row[1], DefaultWaterThreshold,
                                       DefaultElectricityThreshold, NoZone)
             db1 == IF found THEN st.db
                    ELSE [st.db EXCEPT !.buildings = @ \cup {building}]
             reading == UtilityReading(st.ids.reading, building.id, row[2], row[3], row[4])
             db2 == [db1 EXCEPT !.readings = Append(@, reading)]
             result == check_anomalies(db2, reading, tb)
         IN  [ db            |-> Flush(db2, result),
               committed     |-> st.committed,
               ids           |-> [st.ids EXCEPT
                                     !.reading = @ + 1,
                                     !.building = IF found THEN @ ELSE @ + 1],
               success_count |-> st.success_count + 1,
               failed_count  |-> st.failed_count,
               calls         |-> Append(st.calls, CheckCall(reading, result, FALSE)) ]

RECURSIVE ImportRows(_, _, _)
ImportRows(st, rows, tb) ==
    IF rows = <<>> THEN st
    ELSE ImportRows(ImportRow(st, Head(rows), tb), Tail(rows), tb)

import_readings(rows, tb) ==
    /\ next_id.reading + Len(rows) - 1 <= MaxReadings
    /\ LET st == ImportRows([ db |-> DB, committed |-> DB, ids |-> next_id,
                              success_count |-> 0, failed_count |-> 0,
                              calls |-> <<>> ], rows, tb)
       IN  /\ Commit(st.db)
           /\ next_id' = st.ids
           /\ last' = [ op            |-> "import",
                        total_rows    |-> Len(rows),
                        success_count |-> st.success_count,
                        failed_count  |-> st.failed_count,
                        calls         |-> st.calls ]

----------------------------------------------------------------------------
(* The built-in detectors on their own: two buildings, no rule *)

Campus == { Building(1, "B1", 2, 1, "academic"), Building(2, "B2", 2, 1, NoZone) }

Init ==
    /\ buildings = Campus
    /\ readings = <<>>
    /\ alerts = <<>>
    /\ rules = <<>>
    /\ next_id = [reading |-> 1, rule |-> 1, building |-> 3, again |-> 1]
    /\ last = NoCall
    /\ sessions = NoSessions

Next ==
    (* building, utility, value, reading_date of the requests *)
    \/ \E inp \in (({1} \X {WATER} \X {1, 2, 3} \X {0, 14, 15}) \cup ({1} \X {ELECTRICITY} \X {1, 2} \X {15}) \cup {<<2, WATER, 3, 15>>, <<3, WATER, 3, 15>>}), tb \in TieBreaks :
           create_reading(inp[1], inp[2], inp[3], inp[4], tb)

Spec == Init /\ [][Next]_vars

----------------------------------------------------------------------------
(* Ingestion, one request after the other, and the operators' actions on  *)
(* the alerts                                                             *)

MaxRows == 2

RowSeqs(S, n) == UNION {[1..k -> S] : k \in 1..n}

NextLife ==
    \/ \E inp \in (({1} \X {WATER} \X {1, 2} \X {8, 15}) \cup ({1} \X {ELECTRICITY} \X {1} \X {8, 15})), tb \in TieBreaks :
           create_reading(inp[1], inp[2], inp[3], inp[4], tb)
    \/ \E rows \in RowSeqs({BadRow, <<"B1", WATER, 2, 15>>, <<"NEW", WATER, 2, 15>>}, MaxRows), tb \in TieBreaks : import_readings(rows, tb)
    \/ \E a \in 1..(Len(alerts) + 1) : acknowledge_alert(a)
    \/ \E a \in 1..(Len(alerts) + 1) : resolve_alert(a)

SpecLife == Init /\ [][NextLife]_vars

----------------------------------------------------------------------------
(* Rules that trigger together, and check_anomalies called again *)

(* an AlertRuleCreate: is_active and comparison_window_days at their defaults *)
RulePayload(scope, building_id, zone, utility, condition, value, count, severity) ==
    [ is_active              |-> TRUE,
      scope_type             |-> scope,
      building_id            |-> building_id,
      zone                   |-> zone,
      utility_type           |-> utility,
      condition_type         |-> condition,
      threshold_value        |-> value,
      comparison_window_days |-> 7,
      consecutive_count      |-> count,
      severity               |-> severity ]

(* the campus after an import of two water readings of building B1 *)
AgainHistory ==
    ImportRows([ db |-> [buildings |-> Campus, readings |-> <<>>, alerts |-> <<>>,
                         rules |-> <<>>],
                 committed |-> [buildings |-> Campus, readings |-> <<>>, alerts |-> <<>>,
                                rules |-> <<>>],
                 ids |-> [reading |-> 1, rule |-> 1, building |-> 3, again |-> 1],
                 success_count |-> 0, failed_count |-> 0, calls |-> <<>> ],
               << <<"B1", WATER, 2, 15>>, <<"B1", WATER, 3, 15>> >>, "asc")

InitAgain ==
    /\ buildings = AgainHistory.db.buildings
    /\ readings = AgainHistory.db.readings
    /\ alerts = AgainHistory.db.alerts
    /\ rules = AgainHistory.db.rules
    /\ next_id = AgainHistory.ids
    /\ last = NoCall
    /\ sessions = NoSessions

(* the operator resolves the oldest alerts *)
MaxResolved == 1

NextAgain ==
    \/ \E payload \in { RulePayload("global", None, NoZone, WATER, "threshold", 1, 1, "high"), RulePayload("global", None, NoZone, WATER, "threshold", 2, 1, "low") } : create_alert_rule(payload)
    \/ \E inp \in ({1} \X {WATER} \X {2, 4} \X {15}) : create_reading(inp[1], inp[2], inp[3], inp[4], "asc")
    (* the reading evaluated again is the latest one *)
    \/ check_again(next_id.reading - 1, "asc")
    \/ \E a \in 1..MaxResolved : resolve_alert(a)

SpecAgain == InitAgain /\ [][NextAgain]_vars

----------------------------------------------------------------------------
(* The administrator's rules on a campus whose buildings have the default *)
(* thresholds, far above the readings: no built-in detector fires         *)

DefaultCampus ==
    { Building(1, "B1", DefaultWaterThreshold, DefaultElectricityThreshold, "academic"),
      Building(2, "B2", DefaultWaterThreshold, DefaultElectricityThreshold, NoZone) }

InitRules ==
    /\ buildings = DefaultCampus
    /\ readings = <<>>
    /\ alerts = <<>>
    /\ rules = <<>>
    /\ next_id = [reading |-> 1, rule |-> 1, building |-> 3, again |-> 1]
    /\ last = NoCall
    /\ sessions = NoSessions

NextRate ==
    (* a rate_of_change rule of 20% *)
    \/ \E payload \in { RulePayload("global", None, NoZone, WATER, "rate_of_change", 20, 1, "high") } : create_alert_rule(payload)
    \/ \E inp \in ({1} \X {WATER} \X {0, 100, 115, 125} \X {0, 1}), tb \in TieBreaks :
           create_reading(inp[1], inp[2], inp[3], inp[4], tb)

SpecRate == InitRules /\ [][NextRate]_vars

NextRun ==
    (* a threshold rule over runs of 2 readings above 100 *)
    \/ \E payload \in { RulePayload("global", None, NoZone, WATER, "threshold", 100, 2, "high") } : create_alert_rule(payload)
    \/ \E inp \in ({1} \X {WATER} \X {100, 125} \X {0, 1, 2}), tb \in TieBreaks :
           create_reading(inp[1], inp[2], inp[3], inp[4], tb)

SpecRun == InitRules /\ [][NextRun]_vars

NextZone ==
    (* threshold rules of every scope, and the partial updates of a rule *)
    \/ \E payload \in { RulePayload("global", None, NoZone, WATER, "threshold", 100, 1, "high"), RulePayload("zone", None, "academic", WATER, "threshold", 100, 1, "high"), RulePayload("zone", None, NoZone, WATER, "threshold", 100, 1, "high") } : create_alert_rule(payload)
    \/ \E rule_id \in 1..MaxRules, update_data \in { [scope_type |-> "zone"], [zone |-> NoZone], [zone |-> "academic"], [scope_type |-> "zone", zone |-> "residential"] } :
           update_alert_rule(rule_id, update_data)
    \/ \E inp \in ({1, 2} \X {WATER} \X {100, 125} \X {0}) : create_reading(inp[1], inp[2], inp[3], inp[4], "asc")

SpecZone == InitRules /\ [][NextZone]_vars

----------------------------------------------------------------------------
(* Properties of the built-in detectors *)

CreatedOfType(t) == {i \in DOMAIN last.created : last.created[i].alert_type = t}

TheBuilding(id) == CHOOSE b \in buildings : b.id = id

ThresholdFor(r) ==
    IF r.utility_type = WATER
    THEN TheBuilding(r.building_id).water_threshold
    ELSE TheBuilding(r.building_id).electricity_threshold

(* C1: a call of check_anomalies on a reading whose building exists creates *)
(* a threshold_breach alert of severity "high" for that reading exactly     *)
(* when the value is strictly above the building's threshold for the        *)
(* reading's utility; at or below the threshold it creates none.            *)
C1_ThresholdBreachIff ==
    last.op = "check" =>
        LET r == last.reading
            breaches == CreatedOfType(THRESHOLD_BREACH)
        IN  /\ (r.value > ThresholdFor(r)) <=> (breaches # {})
            /\ (r.value <= ThresholdFor(r)) => (breaches = {})
            /\ Cardinality(breaches) <= 1
            /\ \A i \in breaches :
                   /\ last.created[i].severity = "high"
                   /\ last.created[i].reading_id = r.id
                   /\ last.created[i].building_id = r.building_id
                   /\ last.created[i].utility_type = r.utility_type

(* an electricity reading above the electricity threshold, though not above *)
(* the water threshold, has its alert; and a reading equal to its threshold *)
(* was evaluated before it without one                                      *)
C1_Witness ==
    /\ last.op = "check"
    /\ last.reading.utility_type = ELECTRICITY
    /\ last.reading.value > TheBuilding(last.reading.building_id).electricity_threshold
    /\ last.reading.value <= TheBuilding(last.reading.building_id).water_threshold
    /\ CreatedOfType(THRESHOLD_BREACH) # {}
    /\ \E i \in DOMAIN readings :
           /\ readings[i].value = ThresholdFor(readings[i])
           /\ \A j \in DOMAIN alerts : alerts[j].reading_id # readings[i].id

RECURSIVE SumValues(_)
SumValues(S) ==
    IF S = {} THEN 0
    ELSE LET x == CHOOSE y \in S : TRUE IN x.value + SumValues(S \ {x})

RECURSIVE SumSquares(_)
SumSquares(S) ==
    IF S = {} THEN 0
    ELSE LET x == CHOOSE y \in S : TRUE IN x.value * x.value + SumSquares(S \ {x})

(* the other readings of the building and utility of r dated no earlier *)
(* than `days` days before r                                            *)
OthersSince(r, days) ==
    {x \in Range(readings) :
        /\ x.building_id = r.building_id
        /\ x.utility_type = r.utility_type
        /\ x.id # r.id
        /\ x.reading_date + 2 * days >= r.reading_date}

(* n * (n - 1) * variance, times n: zero exactly when sigma is zero *)
Dispersion(S) == Cardinality(S) * SumSquares(S) - SumValues(S) * SumValues(S)

(* (value - mean) / sigma > 2.5, squared and cleared of fractions:     *)
(* sigma^2 = Dispersion / (n * (n - 1)), value - mean = (n*value - S)/n *)
FarAboveMean(value, S) ==
    LET n == Cardinality(S)
        d == n * value - SumValues(S)
    IN  d > 0 /\ 4 * (n - 1) * d * d > 25 * n * Dispersion(S)

(* C7: a call creates a spike alert (severity "medium") exactly when the  *)
(* other readings of the same building and utility in the 7-day window    *)
(* (dated no earlier than 7 days before the reading) are at least 3, have *)
(* sample standard deviation above 0 and put the value more than 2.5      *)
(* standard deviations above their mean; with fewer than 3, or with all   *)
(* of them equal, it creates none.                                        *)
C7_SpikeIff ==
    last.op = "check" =>
        LET r == last.reading
            baseline == OthersSince(r, 7)
            spikes == CreatedOfType(SPIKE)
        IN  /\ (spikes # {}) <=>
                   /\ Cardinality(baseline) >= 3
                   /\ Dispersion(baseline) > 0
                   /\ FarAboveMean(r.value, baseline)
            /\ (Cardinality(baseline) < 3 \/ Dispersion(baseline) = 0) => spikes = {}
            /\ Cardinality(spikes) <= 1
            /\ \A i \in spikes :
                   /\ last.created[i].severity = "medium"
                   /\ last.created[i].reading_id = r.id

(* a spike over a baseline of exactly three readings *)
C7_Witness ==
    /\ last.op = "check"
    /\ CreatedOfType(SPIKE) # {}
    /\ Cardinality(OthersSince(last.reading, 7)) = 3

(* the same three readings and a value not far enough above them: none *)
C7_WitnessNone ==
    /\ last.op = "check"
    /\ CreatedOfType(SPIKE) = {}
    /\ Cardinality(OthersSince(last.reading, 7)) = 3
    /\ Dispersion(OthersSince(last.reading, 7)) > 0
    /\ last.reading.value * 3 > SumValues(OthersSince(last.reading, 7))


----------------------------------------------------------------------------
(* Properties of the alert life cycle *)

PendingOf(t, building_id, utility_type) ==
    {i \in DOMAIN alerts :
        /\ alerts[i].alert_type = t
        /\ alerts[i].status = PENDING
        /\ alerts[i].building_id = building_id
        /\ alerts[i].utility_type = utility_type}

BuildingIds == {b.id : b \in buildings}

(* the readings of the series of r in its 3-day window above 80% of the *)
(* threshold, r included                                                *)
Qualifying(r) ==
    {x \in Range(readings) :
        /\ x.building_id = r.building_id
        /\ x.utility_type = r.utility_type
        /\ x.reading_date + 2 * 3 >= r.reading_date
        /\ 10 * x.value > 8 * ThresholdFor(r)}

(* C2: whatever ingestions (single readings and imports of several rows), *)
(* acknowledgements and resolutions have run one after the other, there   *)
(* is at most one pending continuous_high alert per building and utility. *)
C2_OnePendingContinuousHigh ==
    \A b \in BuildingIds, u \in UtilityType :
        Cardinality(PendingOf(CONTINUOUS_HIGH, b, u)) <= 1

(* the second row of one import found three qualifying readings and the *)
(* alert its first row had just added, and added none                   *)
C2_Witness ==
    /\ last.op = "import"
    /\ Len(last.calls) = 2
    /\ \E i \in DOMAIN last.calls[1].created :
           last.calls[1].created[i].alert_type = CONTINUOUS_HIGH
    /\ last.calls[2].reading.building_id = last.calls[1].reading.building_id
    /\ last.calls[2].reading.utility_type = last.calls[1].reading.utility_type
    /\ Cardinality(Qualifying(last.calls[2].reading)) >= 3
    /\ Cardinality(PendingOf(CONTINUOUS_HIGH, last.calls[2].reading.building_id,
                             last.calls[2].reading.utility_type)) = 1

(* a single reading found three qualifying readings and a pending alert *)
C2_WitnessSuppressed ==
    /\ last.op = "check"
    /\ Cardinality(Qualifying(last.reading)) >= 3
    /\ CreatedOfType(CONTINUOUS_HIGH) = {}


----------------------------------------------------------------------------
(* Properties of rules that trigger together and of repeated calls *)

AlertsOf(t, reading_id) ==
    {i \in DOMAIN alerts : alerts[i].alert_type = t /\ alerts[i].reading_id = reading_id}

(* the alerts as they were before the latest call of check_anomalies *)
AlertsBefore == SubSeq(alerts, 1, Len(alerts) - Len(last.created))

ReadingIds == {readings[i].id : i \in DOMAIN readings}

(* C3: at most one pending rule_trigger alert per originating reading, also *)
(* right after one call in which two or more active rules apply to the      *)
(* reading with their conditions true.                                      *)
C3_OnePendingRuleTriggerPerReading ==
    \A r \in ReadingIds :
        Cardinality({i \in AlertsOf(RULE_TRIGGER, r) : alerts[i].status = PENDING}) <= 1

(* the active global threshold rules without a run length that the reading *)
(* r exceeds, in the order of their ids                                    *)
ExceededRules(r) ==
    SelectSeq(rules, LAMBDA rule :
        /\ rule.is_active
        /\ rule.utility_type = r.utility_type
        /\ rule.scope_type = "global"
        /\ rule.condition_type = "threshold"
        /\ rule.consecutive_count <= 1
        /\ r.value > rule.threshold_value)

CreatedRuleTriggers == SelectSeq(last.created, LAMBDA a : a.alert_type = RULE_TRIGGER)

C5_SecondCallAddsNoDeduplicatedAlert ==
    (last.op = "check" /\ last.repeat)
    => (CreatedOfType(CONTINUOUS_HIGH) = {} /\ CreatedOfType(RULE_TRIGGER) = {})

(* the reading has its pending continuous_high and rule_trigger alerts *)
(* from the first call, and the second call added none                 *)
C5_Witness ==
    /\ last.op = "check"
    /\ last.repeat
    /\ \E i \in AlertsOf(CONTINUOUS_HIGH, last.reading.id) : alerts[i].status = PENDING
    /\ \E i \in AlertsOf(RULE_TRIGGER, last.reading.id) : alerts[i].status = PENDING
    /\ Len(ExceededRules(last.reading)) >= 1
    /\ Cardinality(Qualifying(last.reading)) >= 3

(* C6: threshold_breach and spike alerts are not deduplicated: a repeated *)
(* call on a reading above its threshold adds a second threshold_breach   *)
(* alert for it, and on a reading far above its baseline a second spike   *)
(* alert, whatever alerts exist.                                          *)
C6_NoDedupOfBreachAndSpike ==
    (last.op = "check" /\ last.repeat)
    => LET r == last.reading
           baseline == OthersSince(r, 7)
       IN  /\ r.value > ThresholdFor(r)
                  => /\ CreatedOfType(THRESHOLD_BREACH) # {}
                     /\ Cardinality(AlertsOf(THRESHOLD_BREACH, r.id)) >= 2
           /\ (/\ Cardinality(baseline) >= 3
                /\ Dispersion(baseline) > 0
                /\ FarAboveMean(r.value, baseline))
                  => /\ CreatedOfType(SPIKE) # {}
                     /\ Cardinality(AlertsOf(SPIKE, r.id)) >= 2

(* a reading with two threshold_breach and two spike alerts after the *)
(* second call                                                        *)
C6_Witness ==
    /\ last.op = "check"
    /\ last.repeat
    /\ Cardinality(AlertsOf(THRESHOLD_BREACH, last.reading.id)) = 2
    /\ Cardinality(AlertsOf(SPIKE, last.reading.id)) = 2

----------------------------------------------------------------------------
(* Properties of the conditions of the rules *)

(* the active rules of one condition type that apply to every building *)
GlobalRules(condition_type, utility_type) ==
    {rule \in Range(rules) :
        /\ rule.is_active
        /\ rule.utility_type = utility_type
        /\ rule.scope_type = "global"
        /\ rule.condition_type = condition_type}

SeriesOf(r) ==
    {x \in Range(readings) :
        x.building_id = r.building_id /\ x.utility_type = r.utility_type}

(* M holds n readings of the series of r, none dated before a reading of *)
(* the series outside M: "the n most recent"                             *)
MostRecent(M, r, n) ==
    /\ M \subseteq SeriesOf(r)
    /\ Cardinality(M) = n
    /\ \A x \in M, y \in SeriesOf(r) \ M : x.reading_date >= y.reading_date

(* C8: a threshold rule with consecutive_count N > 1 triggers for a reading *)
(* only when the N most recent readings of the building and utility, the    *)
(* evaluated reading among them, are all strictly above threshold_value.    *)
C8_RunIncludesEvaluatedReading ==
    last.op = "check" =>
        \A rule \in GlobalRules("threshold", last.reading.utility_type) :
            (rule.consecutive_count > 1 /\ rule.id \in last.triggered)
            => \E M \in SUBSET SeriesOf(last.reading) :
                  /\ MostRecent(M, last.reading, rule.consecutive_count)
                  /\ last.reading \in M
                  /\ \A x \in M : x.value > rule.threshold_value

(* a back-dated reading at the limit, stored after two later readings above *)
(* it, triggers the rule                                                    *)
C8_BackDatedTrigger ==
    /\ last.op = "check"
    /\ last.reading.value = 100
    /\ Cardinality(SeriesOf(last.reading)) = 3
    /\ \A x \in SeriesOf(last.reading) \ {last.reading} :
           x.reading_date > last.reading.reading_date /\ x.value = 125
    /\ last.triggered # {}
    /\ \E i \in CreatedOfType(RULE_TRIGGER) :
           last.created[i].message = <<"exceeded", 100, 100>>

(* the readings of the series of r dated strictly before r, and the latest *)
(* of them (several when they share their timestamp)                       *)
Earlier(r) == {x \in SeriesOf(r) : x.id # r.id /\ x.reading_date < r.reading_date}

LatestEarlier(r) == {x \in Earlier(r) : \A y \in Earlier(r) : y.reading_date <= x.reading_date}

(* (v - p) / p * 100 > T, for p > 0 *)
RoseBy(v, p, T) == p > 0 /\ 100 * (v - p) > T * p

(* C9: a rate_of_change rule with threshold T triggers for a reading of     *)
(* value v exactly when a strictly earlier reading of the building and      *)
(* utility exists, the most recent such reading has a value p > 0 and       *)
(* (v - p) / p * 100 > T; never when p = 0 or when there is no earlier      *)
(* reading.  (Of several most recent readings with one timestamp the        *)
(* database picks one: the rule triggers if all of them satisfy this and    *)
(* only if one of them does.)  A triggering rule has its alert.             *)
C9_RateOfChangeIff ==
    last.op = "check" =>
        LET r == last.reading
            roc == GlobalRules("rate_of_change", r.utility_type)
        IN  /\ \A rule \in roc :
                   /\ rule.id \in last.triggered
                          => \E x \in LatestEarlier(r) :
                                 RoseBy(r.value, x.value, rule.threshold_value)
                   /\ (/\ LatestEarlier(r) # {}
                       /\ \A x \in LatestEarlier(r) :
                              RoseBy(r.value, x.value, rule.threshold_value))
                          => rule.id \in last.triggered
            /\ Cardinality({i \in CreatedOfType(RULE_TRIGGER) :
                                last.created[i].message = <<"changed">>})
                   = Cardinality(roc \cap {rule \in Range(rules) : rule.id \in last.triggered})

(* 100 then 125 under the 20% rule: triggered, with its alert *)
C9_Witness ==
    /\ last.op = "check"
    /\ last.reading.value = 125
    /\ LatestEarlier(last.reading) # {}
    /\ \A x \in LatestEarlier(last.reading) : x.value = 100
    /\ last.triggered # {}
    /\ \E i \in CreatedOfType(RULE_TRIGGER) : last.created[i].message = <<"changed">>

(* 100 then 115 under the 20% rule, and 0 then 125: not triggered *)
C9_WitnessBelow ==
    /\ last.op = "check"
    /\ last.reading.value = 115
    /\ LatestEarlier(last.reading) # {}
    /\ \A x \in LatestEarlier(last.reading) : x.value = 100
    /\ GlobalRules("rate_of_change", WATER) # {}
    /\ last.triggered = {}

C9_WitnessZero ==
    /\ last.op = "check"
    /\ last.reading.value = 125
    /\ LatestEarlier(last.reading) # {}
    /\ \A x \in LatestEarlier(last.reading) : x.value = 0
    /\ GlobalRules("rate_of_change", WATER) # {}
    /\ last.triggered = {}

(* the stored rules of scope zone that check_anomalies found triggered *)
TriggeredZoneRules ==
    {rule \in Range(rules) : rule.scope_type = "zone" /\ rule.id \in last.triggered}

(* C10: a rule of scope zone applies to a reading only if the zone of the *)
(* building is set and equals the zone of the rule; for a building whose  *)
(* zone is unset the rule is skipped, whatever rule the create and update *)
(* operations have stored.                                                *)
C10_ZoneRuleNeedsBuildingZone ==
    last.op = "check" =>
        \A rule \in TriggeredZoneRules :
            /\ TheBuilding(last.reading.building_id).zone # NoZone
            /\ TheBuilding(last.reading.building_id).zone = rule.zone

(* a stored rule of scope zone without a zone *)
C10_ZoneRuleWithoutZone ==
    \E rule \in Range(rules) : rule.scope_type = "zone" /\ rule.zone = NoZone

----------------------------------------------------------------------------
(* Which rules the engine evaluates *)

MaxScopeReadings == 2

Inactive(payload) == [payload EXCEPT !.is_active = FALSE]

NextScope ==
    (* threshold rules over 100: of each scope and utility, active or not *)
    \/ \E payload \in { RulePayload("global", None, NoZone, WATER, "threshold", 100, 1, "high"), RulePayload("global", None, NoZone, ELECTRICITY, "threshold", 100, 1, "low"), RulePayload("building", 2, NoZone, WATER, "threshold", 100, 1, "medium"), Inactive(RulePayload("global", None, NoZone, WATER, "threshold", 100, 1, "high")) } : create_alert_rule(payload)
    \/ /\ next_id.reading <= MaxScopeReadings
       /\ \E inp \in ({1, 2} \X {WATER, ELECTRICITY} \X {125} \X {0}) : create_reading(inp[1], inp[2], inp[3], inp[4], "asc")

SpecScope == InitRules /\ [][NextScope]_vars

RuleOf(rule_id) == CHOOSE rule \in Range(rules) : rule.id = rule_id

(* the rules that created a rule_trigger alert in the last call *)
FiredRules == {RuleOf(last.fired[i]) : i \in DOMAIN last.fired}

(* C11: a rule causes a rule_trigger alert for a reading only if it is      *)
(* active and of the reading's utility, and a building-scoped rule only for *)
(* its own building; a global rule is evaluated for every building.         *)
C11_OnlyMatchingActiveRulesFire ==
    last.op = "check" =>
        /\ Len(last.fired) = Cardinality(CreatedOfType(RULE_TRIGGER))
        /\ \A rule \in FiredRules :
              /\ rule.is_active
              /\ rule.utility_type = last.reading.utility_type
              /\ rule.scope_type = "building" => rule.building_id = last.reading.building_id
        /\ \A rule \in Range(rules) :
              ( /\ rule.is_active
                /\ rule.scope_type = "global"
                /\ rule.utility_type = last.reading.utility_type
                /\ rule.condition_type = "threshold"
                /\ rule.consecutive_count = 1
                /\ last.reading.value > rule.threshold_value )
              => rule.id \in last.triggered

(* a reading of building 1 fires the global rule of its utility while the *)
(* rule of building 2 stays silent                                        *)
C11_Witness ==
    /\ last.op = "check"
    /\ last.reading.building_id = 1
    /\ \E g, b \in Range(rules) :
          /\ g.scope_type = "global" /\ g.is_active
          /\ g.utility_type = last.reading.utility_type
          /\ b.scope_type = "building" /\ b.building_id = 2
          /\ b.utility_type = last.reading.utility_type
          /\ last.fired = <<g.id>>
          /\ b.id \notin last.triggered

----------------------------------------------------------------------------
(* check_anomalies for a reading whose building is not found *)

MaxOrphanReadings == 2

(* DELETE /buildings/{building_id}.  readings.building_id and              *)
(* alerts.building_id are NOT NULL foreign keys without cascade: deleting  *)
(* a building that still has readings or alerts fails at commit.           *)
Referenced(building_id) ==
    \/ \E i \in DOMAIN readings : readings[i].building_id = building_id
    \/ \E i \in DOMAIN alerts : alerts[i].building_id = building_id

delete_building(building_id) ==
    IF ~ HasBuilding(DB, building_id) THEN UNCHANGED vars
    ELSE IF Referenced(building_id) THEN UNCHANGED vars
    ELSE /\ buildings' = {b \in buildings : b.id # building_id}
         /\ last' = [op |-> "delete_building", building_id |-> building_id]
         /\ UNCHANGED <<readings, alerts, rules, next_id, sessions>>

(* check_anomalies(db, reading) called with a reading object whose building *)
(* the lookup of line 10 does not find; the caller commits afterwards       *)
check_orphan(building_id, utility_type, value, reading_date, tb) ==
    /\ ~ HasBuilding(DB, building_id)
    /\ LET reading == UtilityReading(next_id.reading, building_id, utility_type,
                                     value, reading_date)
           result == check_anomalies(DB, reading, tb)
       IN  /\ Commit(Flush(DB, result))
           /\ last' = CheckCall(reading, result, FALSE)
           /\ UNCHANGED next_id

NextOrphan ==
    \/ \E payload \in { RulePayload("global", None, NoZone, WATER, "threshold", 100, 1, "high"), RulePayload("zone", None, "academic", WATER, "rate_of_change", 20, 1, "low") } : create_alert_rule(payload)
    \/ \E building_id \in 1..3 : delete_building(building_id)
    \/ /\ next_id.reading <= MaxOrphanReadings
       /\ \E inp \in ({1, 2} \X {WATER} \X {20000} \X {0, 1}) : create_reading(inp[1], inp[2], inp[3], inp[4], "asc")
    \/ \E inp \in ({2, 3} \X {WATER} \X {20000} \X {1}) : check_orphan(inp[1], inp[2], inp[3], inp[4], "asc")

SpecOrphan == InitRules /\ [][NextOrphan]_vars

(* the step is a call of check_anomalies for a reading without building *)
OrphanStep ==
    /\ last'.op = "check"
    /\ ~ HasBuilding(DB, last'.reading.building_id)

(* C12: when the building of the reading is not found, check_anomalies *)
(* creates no alert of any kind, flushes nothing and leaves all stored *)
(* state as it was, whatever active rules exist.                       *)
C12_MissingBuildingIsNoOp ==
    [][ OrphanStep =>
            /\ last'.created = <<>>
            /\ last'.triggered = {}
            /\ UNCHANGED <<buildings, readings, alerts, rules, next_id, sessions>> ]_vars

(* such a call was made, for a value far above every default threshold, *)
(* while an active global rule of the utility was stored                *)
C12_Witness ==
    /\ last.op = "check"
    /\ ~ HasBuilding(DB, last.reading.building_id)
    /\ last.reading.value > DefaultWaterThreshold
    /\ \E rule \in Range(rules) :
          /\ rule.is_active /\ rule.scope_type = "global"
          /\ rule.utility_type = last.reading.utility_type
          /\ rule.condition_type = "threshold"
          /\ last.reading.value > rule.threshold_value
    /\ alerts # <<>>

----------------------------------------------------------------------------
(* Ingestion with persistence failures.  fails: a flush or the commit of   *)
(* the request raises.  An exception that leaves a handler ends the        *)
(* request without db.commit(): the session is rolled back.                *)

MaxAtomicReadings == 3

Rollback == UNCHANGED <<buildings, readings, alerts, rules, sessions>>

Ingest(path, calls, failed) ==
    [op |-> "ingest", path |-> path, calls |-> calls, failed |-> failed]

(* POST /readings *)
create_reading_faulty(building_id, utility_type, value, reading_date, fails, tb) ==
    /\ next_id.reading <= MaxAtomicReadings
    /\ IF ~ HasBuilding(DB, building_id)
       THEN UNCHANGED vars
       ELSE LET reading == UtilityReading(next_id.reading, building_id, utility_type,
                                          value, reading_date)
                db1 == [DB EXCEPT !.readings = Append(@, reading)]
                result == check_anomalies(db1, reading, tb)
            IN  /\ IF fails
                   THEN /\ Rollback
                        /\ last' = Ingest("manual", <<>>, {reading.id})
                   ELSE /\ Commit(create_reading_from_payload(DB, reading, tb))
                        /\ last' = Ingest("manual", <<CheckCall(reading, result, FALSE)>>, {})
                /\ next_id' = [next_id EXCEPT !.reading = @ + 1]

(* POST /iot/ingest, for a device mapped to building_id, past the checks *)
(* of the key, the device and iot_enabled                                *)
ingest_reading(building_id, utility_type, value, reading_date, fails, tb) ==
    /\ next_id.reading <= MaxAtomicReadings
    /\ IF ~ HasBuilding(DB, building_id)
       THEN UNCHANGED vars
       ELSE LET reading == UtilityReading(next_id.reading, building_id, utility_type,
                                          value, reading_date)
                db1 == [DB EXCEPT !.readings = Append(@, reading)]
                result == check_anomalies(db1, reading, tb)
            IN  /\ IF fails
                   THEN /\ Rollback
                        /\ last' = Ingest("iot", <<>>, {reading.id})
                   ELSE /\ Commit(Flush(db1, result))
                        /\ last' = Ingest("iot", <<CheckCall(reading, result, FALSE)>>, {})
                /\ next_id' = [next_id EXCEPT !.reading = @ + 1]

(* as if the except branch removed the reading and kept its flushed alerts *)
ImportRowFaulty_keeps_alerts(st, row, fails, tb) ==
    LET ok == ImportRow(st.run, row, tb)
    IN  IF row # BadRow /\ fails
        THEN [ run    |-> [ok EXCEPT !.db.readings = st.run.db.readings,
                                     !.success_count = st.run.success_count,
                                     !.failed_count = st.run.failed_count + 1,
                                     !.calls = st.run.calls],
               failed |-> st.failed \cup {st.run.ids.reading} ]
        ELSE [run |-> ok, failed |-> st.failed]

(* One pass of the row loop of POST /admin/import/readings in which the  *)
(* flush of the row may raise: the except branch records the row and     *)
(* calls db.rollback().  st.run is the state of ImportRow, st.failed the *)
(* ids of the readings whose row failed in a flush.                      *)
ImportRowFaulty(st, row, fails, tb) ==
    LET ok == ImportRow(st.run, row, tb)
    IN  IF row # BadRow /\ fails
        THEN [ run    |-> [st.run EXCEPT !.db = st.run.committed,
                                         !.failed_count = @ + 1,
                                         !.ids = ok.ids],
               failed |-> st.failed \cup {st.run.ids.reading} ]
        ELSE [run |-> ok, failed |-> st.failed]

RECURSIVE ImportRowsFaulty(_, _, _, _, _)
ImportRowsFaulty(st, rows, i, fail_at, tb) ==
    IF i > Len(rows) THEN st
    ELSE ImportRowsFaulty(ImportRowFaulty(st, rows[i], i \in fail_at, tb),
                          rows, i + 1, fail_at, tb)

(* POST /admin/import/readings; commit_fails: the final db.commit() raises *)
import_readings_faulty(rows, fail_at, commit_fails, tb) ==
    /\ next_id.reading + Len(rows) - 1 <= MaxAtomicReadings
    /\ LET st == ImportRowsFaulty(
                     [ run |-> [ db |-> DB, committed |-> DB, ids |-> next_id,
                                 success_count |-> 0, failed_count |-> 0,
                                 calls |-> <<>> ],
                       failed |-> {} ], rows, 1, fail_at, tb)
       IN  /\ IF commit_fails THEN Rollback ELSE Commit(st.run.db)
           /\ next_id' = st.run.ids
           /\ last' = Ingest("import", st.run.calls, st.failed)

NextAtomic ==
    \/ \E inp \in ({1} \X {WATER} \X {1, 3} \X {15}), fails \in BOOLEAN :
           create_reading_faulty(inp[1], inp[2], inp[3], inp[4], fails, "asc")
    \/ \E inp \in ({1} \X {WATER} \X {1, 3} \X {15}), fails \in BOOLEAN :
           ingest_reading(inp[1], inp[2], inp[3], inp[4], fails, "asc")
    \/ \E rows \in RowSeqs({BadRow, <<"B1", WATER, 3, 15>>, <<"NEW", WATER, 20000, 15>>}, MaxRows), commit_fails \in BOOLEAN :
           \E fail_at \in SUBSET (1..Len(rows)) :
               import_readings_faulty(rows, fail_at, commit_fails, "asc")

SpecAtomic == Init /\ [][NextAtomic]_vars

AlertsFor(reading_id) == {i \in DOMAIN alerts : alerts[i].reading_id = reading_id}

(* C13: on every ingestion path the committed state holds no alert of     *)
(* check_anomalies for a reading that is not committed, and no reading    *)
(* whose detection ended in a persistence failure: a reading and the      *)
(* alerts created for it are committed together or rolled back together.  *)
C13_ReadingAndAlertsCommitTogether ==
    /\ \A i \in DOMAIN alerts : alerts[i].reading_id \in ReadingIds
    /\ last.op = "ingest" =>
          /\ last.failed \cap ReadingIds = {}
          /\ \A k \in DOMAIN last.calls :
                last.calls[k].reading.id \in ReadingIds
                => Cardinality(AlertsFor(last.calls[k].reading.id))
                       = Len(last.calls[k].created)

(* an import in which one row failed in a flush and another row was *)
(* committed together with its alert                                *)
C13_Witness ==
    /\ last.op = "ingest" /\ last.path = "import"
    /\ last.failed # {}
    /\ \E k \in DOMAIN last.calls :
          /\ last.calls[k].reading.id \in ReadingIds
          /\ last.calls[k].created # <<>>
          /\ AlertsFor(last.calls[k].reading.id) # {}

(* a manual and a device ingestion that failed after a reading with an *)
(* alert had been committed                                            *)
C13_WitnessRequest ==
    /\ last.op = "ingest" /\ last.path \in {"manual", "iot"}
    /\ last.failed # {}
    /\ alerts # <<>>

----------------------------------------------------------------------------
(* Rule configuration through POST, PUT and DELETE /alerts/rules *)

(* an explicit null for a string field of AlertRuleUpdate *)
Null == "null"

NextConfig ==
    \/ \E payload \in ({ RulePayload(scope, None, NoZone, WATER, condition, 100, 1, "high") : scope \in {"global", "campus"}, condition \in {"threshold", "median"} } \cup { RulePayload("building", b, NoZone, WATER, "zscore", 3, 1, "high") : b \in {None, 1, 3} } \cup { RulePayload("zone", None, z, WATER, "threshold", 100, 1, "low") : z \in {NoZone, "academic"} }) : create_alert_rule(payload)
    \/ \E rule_id \in 1..MaxRules, update_data \in ({ [scope_type |-> s] : s \in {"zone", "building", "campus", Null} } \cup { [condition_type |-> c] : c \in {"rate_of_change", "median", Null} } \cup { [scope_type |-> "global", condition_type |-> "median"], [scope_type |-> "campus", condition_type |-> "zscore"], [scope_type |-> "building", building_id |-> 3], [zone |-> NoZone], [building_id |-> None] }) :
           update_alert_rule(rule_id, update_data)
    \/ \E rule_id \in 1..MaxRules : delete_alert_rule(rule_id)

SpecConfig == InitRules /\ [][NextConfig]_vars

(* C14: after any sequence of create, update and delete requests every   *)
(* stored rule has a scope_type among global, zone, building and a       *)
(* condition_type among threshold, zscore, rate_of_change; a request     *)
(* with another value stores nothing.                                    *)
C14_StoredRuleTypesAreKnown ==
    \A i \in DOMAIN rules :
        /\ rules[i].scope_type \in ScopeTypes
        /\ rules[i].condition_type \in ConditionTypes

(* an update has stored a new condition_type in a rule *)
C14_Witness ==
    /\ last.op = "update_rule"
    /\ \E i \in DOMAIN rules :
          /\ rules[i].id = last.rule_id
          /\ rules[i].condition_type = "rate_of_change"
          /\ rules[i].scope_type \in {"zone", "building"}

(* C15: after any sequence of rule create and update requests a stored  *)
(* rule of scope building has a building_id and a stored rule of scope  *)
(* zone has a zone; a request that would store another is rejected.     *)
C15_ScopedRulesNameTheirTarget ==
    \A i \in DOMAIN rules :
        /\ rules[i].scope_type = "building" => rules[i].building_id # None
        /\ rules[i].scope_type = "zone" => rules[i].zone # NoZone

----------------------------------------------------------------------------
(* The lifecycle of an alert *)

(* C16: the status of an alert only moves forward, pending to acknowledged *)
(* or resolved: a resolved alert stays resolved under every operation,     *)
(* acknowledge_alert never succeeds on it nor changes a field of it, and   *)
(* no operation sets the status of an existing alert back to pending.      *)
C16_StatusOnlyMovesForward ==
    [][ /\ \A i \in DOMAIN alerts :
              /\ i \in DOMAIN alerts'
              /\ alerts[i].status = RESOLVED => alerts'[i].status = RESOLVED
              /\ alerts'[i].status = PENDING => alerts[i].status = PENDING
              /\ (alerts[i].status = RESOLVED /\ alerts'[i] # alerts[i])
                     => last'.op = "resolve"
        /\ (last'.op = "acknowledge" /\ last' # last)
               => alerts[last'.alert_id].status # RESOLVED ]_vars

(* an alert went from pending over acknowledged to resolved, and stayed *)
(* resolved while another alert was acknowledged                        *)
C16_Witness ==
    /\ last.op = "acknowledge"
    /\ \E i \in DOMAIN alerts :
          /\ i # last.alert_id
          /\ alerts[i].status = RESOLVED
          /\ alerts[i].acknowledged_by = CurrentUser
          /\ alerts[i].resolved_by = CurrentUser

----------------------------------------------------------------------------
(* DELETE /readings/{reading_id} *)

MaxDeleteReadings == 3

(* db.query(Alert).filter(Alert.reading_id == reading_id).update({"reading_id": None}) *)
DetachAlerts(db_alerts, reading_id) ==
    [i \in DOMAIN db_alerts |->
        IF db_alerts[i].reading_id = reading_id
        THEN [db_alerts[i] EXCEPT !.reading_id = None]
        ELSE db_alerts[i]]

(* as if the alerts of the reading were left as they are *)
delete_reading_dangling(reading_id) ==
    IF ~ HasReading(reading_id) THEN UNCHANGED vars
    ELSE /\ readings' = SelectSeq(readings, LAMBDA r : r.id # reading_id)
         /\ last' = [op |-> "delete_reading", reading_id |-> reading_id]
         /\ UNCHANGED <<buildings, alerts, rules, next_id, sessions>>

delete_reading(reading_id) ==
    IF ~ HasReading(reading_id) THEN UNCHANGED vars
    ELSE /\ alerts' = DetachAlerts(alerts, reading_id)
         /\ readings' = SelectSeq(readings, LAMBDA r : r.id # reading_id)
         /\ last' = [op |-> "delete_reading", reading_id |-> reading_id]
         /\ UNCHANGED <<buildings, rules, next_id, sessions>>

NextDelete ==
    \/ /\ next_id.reading <= MaxDeleteReadings
       /\ \E inp \in ({1} \X {WATER} \X {1, 3} \X {8, 15}) : create_reading(inp[1], inp[2], inp[3], inp[4], "asc")
    \/ \E reading_id \in 1..MaxDeleteReadings : delete_reading(reading_id)
    \/ \E a \in 1..(Len(alerts) + 1) : acknowledge_alert(a)

SpecDelete == Init /\ [][NextDelete]_vars

(* the step is a delete_reading that found its reading *)
DeleteStep == last'.op = "delete_reading" /\ last' # last

(* C17: delete_reading removes the reading and keeps every alert that   *)
(* referenced it, with reading_id null and every other field unchanged; *)
(* the number of alerts stays the same and afterwards no alert          *)
(* references a reading that does not exist.                            *)
C17_DeleteReadingKeepsAlerts ==
    [][ DeleteStep =>
            /\ \A i \in DOMAIN readings' : readings'[i].id # last'.reading_id
            /\ readings' = SelectSeq(readings, LAMBDA r : r.id # last'.reading_id)
            /\ Len(alerts') = Len(alerts)
            /\ \A i \in DOMAIN alerts :
                  IF alerts[i].reading_id = last'.reading_id
                  THEN alerts'[i] = [alerts[i] EXCEPT !.reading_id = None]
                  ELSE alerts'[i] = alerts[i]
            /\ \A i \in DOMAIN alerts' :
                  \/ alerts'[i].reading_id = None
                  \/ \E k \in DOMAIN readings' : readings'[k].id = alerts'[i].reading_id
      ]_vars

(* a reading with an acknowledged alert was deleted while another reading *)
(* keeps its own alert                                                    *)
C17_Witness ==
    /\ last.op = "delete_reading"
    /\ \E i, k \in DOMAIN alerts :
          /\ alerts[i].reading_id = None
          /\ alerts[i].status = ACKNOWLEDGED
          /\ alerts[k].reading_id \in ReadingIds

----------------------------------------------------------------------------
(* continuous_high alerts after the operators have acted *)

(* the continuous_high alerts of the series of r, of a given status, that *)
(* were stored before the latest call of check_anomalies                  *)
ContinuousHighBefore(r, status) ==
    {i \in DOMAIN AlertsBefore :
        /\ alerts[i].alert_type = CONTINUOUS_HIGH
        /\ alerts[i].building_id = r.building_id
        /\ alerts[i].utility_type = r.utility_type
        /\ alerts[i].status = status}

CreatedContinuousHigh ==
    {i \in CreatedOfType(CONTINUOUS_HIGH) :
        /\ last.created[i].status = PENDING
        /\ last.created[i].reading_id = last.reading.id}

(* C18: once the pending continuous_high alert of a building and utility *)
(* has been resolved, the next call of check_anomalies for them that     *)
(* finds at least 3 qualifying readings creates a new pending one.       *)
C18_NewAlertAfterResolve ==
    ( /\ last.op = "check"
      /\ ContinuousHighBefore(last.reading, RESOLVED) # {}
      /\ ContinuousHighBefore(last.reading, PENDING) = {}
      /\ Cardinality(Qualifying(last.reading)) >= 3 )
    => Cardinality(CreatedContinuousHigh) = 1

(* a fourth qualifying reading arrived after the alert of the third had *)
(* been resolved, and got its own alert                                 *)
C18_Witness ==
    /\ last.op = "check"
    /\ ContinuousHighBefore(last.reading, RESOLVED) # {}
    /\ ContinuousHighBefore(last.reading, PENDING) = {}
    /\ ContinuousHighBefore(last.reading, ACKNOWLEDGED) = {}
    /\ Cardinality(Qualifying(last.reading)) >= 3
    /\ CreatedContinuousHigh # {}

----------------------------------------------------------------------------
(* Two ingestions in separate transactions.  A transaction sees the       *)
(* committed rows and its own flushed rows; it does not see the flushed   *)
(* rows of the other one.  No statement of the engine takes a lock and no *)
(* table has a uniqueness constraint on the pending alerts.               *)

MaxRaceReadings == 4

(* POST /readings up to the return of create_reading_from_payload: the *)
(* reading is flushed and check_anomalies has run in the transaction   *)
begin_create_reading(s, building_id, utility_type, value, reading_date, tb) ==
    /\ sessions[s] = Idle
    /\ next_id.reading <= MaxRaceReadings
    /\ IF ~ HasBuilding(DB, building_id)
       THEN UNCHANGED vars
       ELSE LET reading == UtilityReading(next_id.reading, building_id, utility_type,
                                          value, reading_date)
                db1 == [DB EXCEPT !.readings = Append(@, reading)]
                result == check_anomalies(db1, reading, tb)
            IN  /\ sessions' = [sessions EXCEPT ![s] =
                       [phase |-> "flushed", reading |-> reading, result |-> result]]
                /\ next_id' = [next_id EXCEPT !.reading = @ + 1]
                /\ last' = [op |-> "begin", session |-> s]
                /\ UNCHANGED <<buildings, readings, alerts, rules>>

(* as if a uniqueness constraint on the pending continuous_high alerts of a *)
(* building and utility made the second insert fail                         *)
commit_create_reading_unique(s) ==
    /\ sessions[s] # Idle
    /\ LET reading == sessions[s].reading
           result == sessions[s].result
           clash == /\ PendingContinuousHigh(alerts, reading)
                    /\ \E i \in DOMAIN result.created :
                          result.created[i].alert_type = CONTINUOUS_HIGH
       IN  /\ IF clash THEN UNCHANGED <<readings, alerts>>
              ELSE /\ readings' = Append(readings, reading)
                   /\ alerts' = alerts \o result.created
           /\ sessions' = [sessions EXCEPT ![s] = Idle]
           /\ last' = [ op |-> "commit", session |-> s,
                        call |-> CheckCall(reading, result, FALSE) ]
           /\ UNCHANGED <<buildings, rules, next_id>>

(* db.commit() of create_reading *)
commit_create_reading(s) ==
    /\ sessions[s] # Idle
    /\ LET reading == sessions[s].reading
           result == sessions[s].result
       IN  /\ readings' = Append(readings, reading)
           /\ alerts' = alerts \o result.created
           /\ sessions' = [sessions EXCEPT ![s] = Idle]
           /\ last' = [ op |-> "commit", session |-> s,
                        call |-> CheckCall(reading, result, FALSE) ]
           /\ UNCHANGED <<buildings, rules, next_id>>

NextRace ==
    \/ \E s \in Sessions, inp \in ({1} \X {WATER, ELECTRICITY} \X {1, 3} \X {15, 16}) :
           begin_create_reading(s, inp[1], inp[2], inp[3], inp[4], "asc")
    \/ \E s \in Sessions : commit_create_reading(s)
    \/ \E a \in 1..MaxResolved : resolve_alert(a)

SpecRace == InitAgain /\ [][NextRace]_vars

(* the sessions whose transaction is open *)
Open == {s \in Sessions : sessions[s] # Idle}

(* C19: two ingestions of one building and utility in separate          *)
(* transactions can both pass the test for a pending continuous_high    *)
(* alert before the insert of either is visible to the other; no lock   *)
(* and no uniqueness constraint stops the second: whatever was          *)
(* committed meanwhile, a commit stores every alert its check created.  *)
C19_NothingStopsTheSecondInsert ==
    [][ \A s \in Open :
            sessions'[s] = Idle
            => /\ alerts' = alerts \o sessions[s].result.created
               /\ readings' = Append(readings, sessions[s].reading) ]_vars

(* two pending continuous_high alerts of one building and utility, the *)
(* second one committed by a transaction that was open when the first  *)
(* was committed                                                       *)
C19_Witness ==
    /\ last.op = "commit"
    /\ \E i \in DOMAIN last.call.created :
          last.call.created[i].alert_type = CONTINUOUS_HIGH
    /\ Cardinality(PendingOf(CONTINUOUS_HIGH, last.call.reading.building_id,
                             last.call.reading.utility_type)) = 2

(* the continuous_high alerts of a building and utility that are not resolved *)
UnresolvedContinuousHigh(building_id, utility_type) ==
    {i \in DOMAIN alerts :
        /\ alerts[i].alert_type = CONTINUOUS_HIGH
        /\ alerts[i].status \in {PENDING, ACKNOWLEDGED}
        /\ alerts[i].building_id = building_id
        /\ alerts[i].utility_type = utility_type}

(* C20: in every state reached by sequential ingestions and operator      *)
(* actions there are never two unresolved (pending or acknowledged)       *)
(* continuous_high alerts of one building and utility: an acknowledged,   *)
(* unresolved alert still suppresses the creation of another one.         *)
C20_OneUnresolvedContinuousHigh ==
    \A b \in BuildingIds, u \in UtilityType :
        Cardinality(UnresolvedContinuousHigh(b, u)) <= 1

----------------------------------------------------------------------------
(* Evaluation of a stored rule whose condition_type the engine does not  *)
(* know.  alert_rules.condition_type is a plain string column: such a    *)
(* row is not stored by the rule requests but the engine reads whatever  *)
(* the table holds.                                                      *)

MaxUnknownReadings == 3

UnknownRule(condition, count) ==
    AlertRule(1, RulePayload("global", None, NoZone, WATER, condition, 1, count, "high"))

KnownRule == AlertRule(2, RulePayload("global", None, NoZone, WATER, "threshold", 100, 1, "low"))

UnknownRuleTables ==
    { <<UnknownRule(c, n), KnownRule>> : c \in {"median", ""}, n \in {1, 2} }

InitUnknown ==
    /\ buildings = DefaultCampus
    /\ readings = <<>>
    /\ alerts = <<>>
    /\ rules \in UnknownRuleTables
    /\ next_id = [reading |-> 1, rule |-> 3, building |-> 3, again |-> 1]
    /\ last = NoCall
    /\ sessions = NoSessions

NextUnknown ==
    \/ /\ next_id.reading <= MaxUnknownReadings
       /\ \E inp \in ({1} \X {WATER} \X {0, 3, 125} \X {0, 1}), tb \in TieBreaks :
             create_reading(inp[1], inp[2], inp[3], inp[4], tb)

SpecUnknown == InitUnknown /\ [][NextUnknown]_vars

UnknownRules == {rule \in Range(rules) : rule.condition_type \notin ConditionTypes}

(* C21: an active, applicable rule whose condition_type is none of       *)
(* threshold, zscore, rate_of_change never triggers: the call creates no *)
(* rule_trigger alert for it, for every reading and history, and ends    *)
(* normally.                                                             *)
C21_UnknownConditionNeverTriggers ==
    last.op = "check" =>
        /\ \A rule \in UnknownRules :
              /\ rule.id \notin last.triggered
              /\ \A i \in DOMAIN last.fired : last.fired[i] # rule.id
        /\ Cardinality(CreatedOfType(RULE_TRIGGER)) = Len(last.fired)

(* a reading above the threshold_value of the unknown rule, with earlier *)
(* readings far below it, fired the known rule only                      *)
C21_Witness ==
    /\ last.op = "check"
    /\ Len(readings) = 3
    /\ last.reading.value = 125
    /\ last.reading.reading_date = 1
    /\ \E x \in Range(readings) : x.reading_date = 0 /\ x.value = 3
    /\ \E rule \in UnknownRules :
          /\ rule.is_active /\ rule.scope_type = "global"
          /\ rule.utility_type = last.reading.utility_type
          /\ last.reading.value > rule.threshold_value
    /\ last.fired = <<KnownRule.id>>

----------------------------------------------------------------------------
(* The three ingestion paths statement by statement: db.add and db.flush  *)
(* of the reading, check_anomalies, db.commit().  A session holds what    *)
(* its transaction has flushed: tx_readings, tx_alerts; checked is the    *)
(* set of readings check_anomalies has returned for.                      *)

MaxStepReadings == 3

IngestPaths == {"manual", "iot", "import"}

(* the tables as the transaction of session s sees them *)
SessionView(s) ==
    [DB EXCEPT !.readings = @ \o sessions[s].tx_readings,
               !.alerts = @ \o sessions[s].tx_alerts]

(* db.add(db_reading); db.flush(): first statement pair of a request, *)
(* or of the next row of an import whose previous row has been checked *)
add_and_flush(s, path, building_id, utility_type, value, reading_date) ==
    /\ next_id.reading <= MaxStepReadings
    /\ \/ sessions[s] = Idle
       \/ /\ sessions[s] # Idle
          /\ sessions[s].phase = "checked"
          /\ sessions[s].path = "import"
          /\ path = "import"
    /\ HasBuilding(DB, building_id)
    /\ LET reading == UtilityReading(next_id.reading, building_id, utility_type,
                                     value, reading_date)
           open == IF sessions[s] = Idle
                   THEN [tx_readings |-> <<>>, tx_alerts |-> <<>>, checked |-> {}]
                   ELSE sessions[s]
       IN  /\ sessions' = [sessions EXCEPT ![s] =
                  [ phase       |-> "flushed",
                    path        |-> path,
                    tx_readings |-> Append(open.tx_readings, reading),
                    tx_alerts   |-> open.tx_alerts,
                    checked     |-> open.checked ]]
           /\ next_id' = [next_id EXCEPT !.reading = @ + 1]
           /\ last' = [op |-> "flush", session |-> s]
           /\ UNCHANGED <<buildings, readings, alerts, rules>>

(* check_anomalies(db, db_reading) on the reading just flushed *)
call_check_anomalies(s, tb) ==
    /\ sessions[s] # Idle
    /\ sessions[s].phase = "flushed"
    /\ LET reading == sessions[s].tx_readings[Len(sessions[s].tx_readings)]
           result == check_anomalies(SessionView(s), reading, tb)
       IN  /\ sessions' = [sessions EXCEPT ![s] =
                  [@ EXCEPT !.phase = "checked",
                            !.tx_alerts = @ \o result.created,
                            !.checked = @ \cup {reading.id}]]
           /\ last' = [op |-> "checked", session |-> s,
                       call |-> CheckCall(reading, result, FALSE)]
           /\ UNCHANGED <<buildings, readings, alerts, rules, next_id>>

(* as if db.commit() could run right after the flush of the reading *)
commit_session_early(s) ==
    /\ sessions[s] # Idle
    /\ readings' = readings \o sessions[s].tx_readings
    /\ alerts' = alerts \o sessions[s].tx_alerts
    /\ sessions' = [sessions EXCEPT ![s] = Idle]
    /\ last' = [op |-> "committed", session |-> s]
    /\ UNCHANGED <<buildings, rules, next_id>>

(* db.commit(): the statement after check_anomalies in create_reading and *)
(* ingest_reading, the statement after the row loop in import_readings    *)
commit_session(s) ==
    /\ sessions[s] # Idle
    /\ sessions[s].phase = "checked"
    /\ readings' = readings \o sessions[s].tx_readings
    /\ alerts' = alerts \o sessions[s].tx_alerts
    /\ sessions' = [sessions EXCEPT ![s] = Idle]
    /\ last' = [op |-> "committed", session |-> s]
    /\ UNCHANGED <<buildings, rules, next_id>>

NextStep ==
    \/ \E s \in Sessions, path \in IngestPaths, inp \in ({1} \X {WATER} \X {1, 3} \X {15}) :
           add_and_flush(s, path, inp[1], inp[2], inp[3], inp[4])
    \/ \E s \in Sessions : call_check_anomalies(s, "asc")
    \/ \E s \in Sessions : commit_session(s)

SpecStep == Init /\ [][NextStep]_vars

(* the readings the step commits *)
Committing == Range(readings') \ Range(readings)

(* C22: on each of the three paths the reading is added and flushed, so  *)
(* it has an identity, before check_anomalies is called; check_anomalies *)
(* has returned before the transaction of the reading is committed; no   *)
(* path commits a reading on which check_anomalies has not run.          *)
C22_FlushThenCheckThenCommit ==
    [][ /\ \A s \in Open :
              (sessions[s].phase = "flushed" /\ sessions'[s] # sessions[s])
              => /\ sessions'[s] # Idle
                 /\ sessions'[s].phase = "checked"
                 /\ readings' = readings
                 /\ LET reading == sessions[s].tx_readings[Len(sessions[s].tx_readings)]
                    IN  /\ reading.id # None
                        /\ reading.id \notin sessions[s].checked
                        /\ reading.id \in sessions'[s].checked
        /\ \A r \in Committing :
              \E s \in Open :
                 /\ sessions'[s] = Idle
                 /\ r \in Range(sessions[s].tx_readings)
                 /\ r.id \in sessions[s].checked ]_vars

(* an import of two rows was committed, both readings checked, while *)
(* another request was between its flush and its check               *)
C22_Witness ==
    /\ last.op = "committed"
    /\ Len(readings) = 2
    /\ \E s \in Open : sessions[s].phase = "flushed" /\ sessions[s].path \in {"manual", "iot"}

----------------------------------------------------------------------------
(* The severity of the alerts *)

Severities == {"low", "medium", "high"}

NextSeverity ==
    (* AlertRuleBase.severity is a str without validation *)
    \/ \E payload \in { RulePayload("global", None, NoZone, WATER, "threshold", 2, 1, severity) : severity \in {"low", "", "critical"} } : create_alert_rule(payload)
    \/ \E inp \in ({1} \X {WATER} \X {1, 3} \X {15}) : create_reading(inp[1], inp[2], inp[3], inp[4], "asc")

SpecSeverity == Init /\ [][NextSeverity]_vars

(* C23: every alert created by check_anomalies has a severity among low,  *)
(* medium, high: threshold_breach alerts are high, spike and              *)
(* continuous_high alerts are medium, and a rule_trigger alert has the    *)
(* severity of its rule, medium when the rule has none, for every rule    *)
(* the rule requests can store.                                           *)
C23_SeverityIsLowMediumHigh ==
    \A i \in DOMAIN alerts :
        /\ alerts[i].severity \in Severities
        /\ alerts[i].alert_type = THRESHOLD_BREACH => alerts[i].severity = "high"
        /\ alerts[i].alert_type \in {SPIKE, CONTINUOUS_HIGH} => alerts[i].severity = "medium"

----------------------------------------------------------------------------
(* Readings with a negative value on the three ingestion paths.          *)
(* ReadingBase.value and IoTIngestRequest.value are plain floats; the    *)
(* row loop of import_readings converts with float(value_raw).           *)

NextNegative ==
    \/ \E inp \in ({1} \X {WATER} \X {-1, 3} \X {8, 15}) : create_reading(inp[1], inp[2], inp[3], inp[4], "asc")
    \/ \E inp \in ({1} \X {WATER} \X {-1, 3} \X {8, 15}) : ingest_reading(inp[1], inp[2], inp[3], inp[4], FALSE, "asc")
    \/ \E rows \in RowSeqs({ <<"B1", WATER, -1, 15>>, <<"B1", WATER, 3, 15>> }, MaxRows) : import_readings(rows, "asc")

SpecNegative == Init /\ [][NextNegative]_vars

(* C24: every reading an ingestion path stores and hands to          *)
(* check_anomalies has a value of at least 0; a negative value is    *)
(* rejected before any reading is stored or evaluated.               *)
C24_StoredValuesAreNotNegative ==
    /\ \A i \in DOMAIN readings : readings[i].value >= 0
    /\ last.op = "check" => last.reading.value >= 0

----------------------------------------------------------------------------
(* zscore rules *)

MaxZscoreReadings == 4

(* an active global zscore rule of threshold_value 2, for each window *)
ZscoreRule(days) ==
    AlertRule(1, [RulePayload("global", None, NoZone, WATER, "zscore", 2, 1, "high")
                     EXCEPT !.comparison_window_days = days])

ZscoreRuleTables == { <<ZscoreRule(days)>> : days \in {0, 1, 2} }

InitZscore ==
    /\ buildings = DefaultCampus
    /\ readings = <<>>
    /\ alerts = <<>>
    /\ rules \in ZscoreRuleTables
    /\ next_id = [reading |-> 1, rule |-> 2, building |-> 3, again |-> 1]
    /\ last = NoCall
    /\ sessions = NoSessions

NextZscore ==
    (* reading_date in half-days: 0 and 3 are a day and a half apart *)
    \/ /\ next_id.reading <= MaxZscoreReadings
       /\ \E inp \in ({1} \X {WATER} \X {1, 2, 9} \X {0, 3}) : create_reading(inp[1], inp[2], inp[3], inp[4], "asc")

SpecZscore == InitZscore /\ [][NextZscore]_vars

(* (value - mean) / sigma > T for T >= 0, cleared of fractions *)
ZAbove(value, S, T) ==
    LET n == Cardinality(S)
        d == n * value - SumValues(S)
    IN  d > 0 /\ (n - 1) * d * d > T * T * n * Dispersion(S)

WindowDays(rule) == IF rule.comparison_window_days < 1 THEN 1 ELSE rule.comparison_window_days

(* C25: a zscore rule triggers for a reading exactly when the other      *)
(* readings of the building and utility dated within the comparison      *)
(* window of the rule (comparison_window_days, at least 1 day) are at    *)
(* least 3, have sample standard deviation above 0, and put the value    *)
(* more than threshold_value standard deviations above their mean.       *)
C25_ZscoreRuleIff ==
    last.op = "check" =>
        \A rule \in GlobalRules("zscore", last.reading.utility_type) :
            LET baseline == OthersSince(last.reading, WindowDays(rule))
            IN  rule.id \in last.triggered <=>
                    /\ Cardinality(baseline) >= 3
                    /\ Dispersion(baseline) > 0
                    /\ ZAbove(last.reading.value, baseline, rule.threshold_value)

(* triggered over a baseline of exactly three readings *)
C25_Witness ==
    /\ last.op = "check"
    /\ last.triggered # {}
    /\ \E rule \in GlobalRules("zscore", WATER) :
          Cardinality(OthersSince(last.reading, WindowDays(rule))) = 3
    /\ \E i \in CreatedOfType(RULE_TRIGGER) :
          last.created[i].message = <<"deviated", last.reading.value>>

(* not triggered under a window of 1 day, for a value and three other   *)
(* readings that trigger under a window of 2 days: one of them is dated *)
(* a day and a half before the reading                                  *)
C25_WitnessWindow ==
    /\ last.op = "check"
    /\ last.triggered = {}
    /\ \E rule \in GlobalRules("zscore", WATER) :
          /\ WindowDays(rule) = 1
          /\ Cardinality(OthersSince(last.reading, 1)) = 2
          /\ Cardinality(OthersSince(last.reading, 2)) = 3
          /\ Dispersion(OthersSince(last.reading, 2)) > 0
          /\ ZAbove(last.reading.value, OthersSince(last.reading, 2), rule.threshold_value)

----------------------------------------------------------------------------
(* The spike baseline and readings dated after the evaluated one *)

(* the other readings of the building and utility of r dated within the *)
(* `days` days up to the reading_date of r                              *)
OthersWithin(r, days) ==
    {x \in OthersSince(r, days) : x.reading_date <= r.reading_date}

(* C26: the baseline of the spike detector holds only readings dated     *)
(* within the 7 days up to the reading_date of the evaluated reading: a  *)
(* spike alert is created exactly when those readings are at least 3,    *)
(* have sample standard deviation above 0 and put the value more than    *)
(* 2.5 standard deviations above their mean, whatever readings dated     *)
(* later than the evaluated one are stored.                              *)
C26_SpikeBaselineEndsAtReading ==
    last.op = "check" =>
        LET baseline == OthersWithin(last.reading, 7)
        IN  (CreatedOfType(SPIKE) # {}) <=>
                /\ Cardinality(baseline) >= 3
                /\ Dispersion(baseline) > 0
                /\ FarAboveMean(last.reading.value, baseline)

----------------------------------------------------------------------------
(* The rows an import counts as successful *)

(* the readings that the rows of the last import added and that are stored *)
ImportedAndStored ==
    {i \in DOMAIN last.calls : last.calls[i].reading \in Range(readings)}

(* C27: in import_readings a failing row undoes no other row: after the  *)
(* final commit every row counted in success_count has its reading       *)
(* persisted, so the number of readings persisted by the import equals   *)
(* success_count, whichever other rows of the file failed.               *)
C27_SuccessCountIsPersisted ==
    last.op = "import" => Cardinality(ImportedAndStored) = last.success_count

----------------------------------------------------------------------------
(* The days that the continuous-high detector counts *)

(* the days, within the 3 days before r, with a reading of the building *)
(* and utility of r above 80% of the threshold                          *)
HighDays(r) ==
    { DayOf(x.reading_date) :
        x \in { y \in Range(readings) :
                  /\ y.building_id = r.building_id
                  /\ y.utility_type = r.utility_type
                  /\ y.reading_date >= r.reading_date - timedelta(3)
                  /\ \E b \in buildings :
                        /\ b.id = r.building_id
                        /\ 5 * y.value > 4 * BuildingThreshold(b, r) } }

(* C28: a continuous_high alert is created only when readings above 80%  *)
(* of the threshold exist on at least 3 different days of the 3-day      *)
(* window, and the n of its message is the number of those days: several *)
(* qualifying readings of one day count as one day.                      *)
C28_ContinuousHighCountsDays ==
    last.op = "check" =>
        \A i \in CreatedOfType(CONTINUOUS_HIGH) :
            /\ Cardinality(HighDays(last.reading)) >= 3
            /\ last.created[i].message = <<"continuous", Cardinality(HighDays(last.reading))>>

----------------------------------------------------------------------------
(* What a call of check_anomalies leaves alone *)

(* the step is a call of check_anomalies on a stored reading *)
CheckAgainStep == last'.op = "check" /\ next_id'.again # next_id.again

(* C29: check_anomalies only inserts alerts: a call modifies or deletes  *)
(* no reading, building or rule, and every alert that existed before the *)
(* call is there after it with the same status, severity and message     *)
(* (and every other field).                                              *)
C29_CheckOnlyInsertsAlerts ==
    [][ CheckAgainStep =>
            /\ readings' = readings
            /\ buildings' = buildings
            /\ rules' = rules
            /\ Len(alerts') = Len(alerts) + Len(last'.created)
            /\ SubSeq(alerts', 1, Len(alerts)) = alerts
            /\ SubSeq(alerts', Len(alerts) + 1, Len(alerts')) = last'.created ]_vars

(* a call on a stored reading that inserted alerts next to a resolved and *)
(* a pending alert created before it                                      *)
C29_Witness ==
    /\ last.op = "check"
    /\ next_id.again > 1
    /\ last.created # <<>>
    /\ \E i, j \in 1..(Len(alerts) - Len(last.created)) :
          /\ alerts[i].status = RESOLVED
          /\ alerts[j].status = PENDING

----------------------------------------------------------------------------
(* Building codes.  A string is the sequence of its characters, over the   *)
(* characters that the requests of this part use.                          *)

Letters == [a |-> "A", b |-> "B", l |-> "L", d |-> "D", g |-> "G"]

DigitChars == <<"0", "1", "2", "3", "4", "5", "6", "7", "8", "9">>

(* n times the character ch *)
Chars(n, ch) == [i \in 1..n |-> ch]

(* str.upper() *)
Upper(s) == [i \in DOMAIN s |-> IF s[i] \in DOMAIN Letters THEN Letters[s[i]] ELSE s[i]]

(* ch.isalnum() *)
IsAlnum(ch) ==
    \/ ch \in DOMAIN Letters
    \/ ch \in {Letters[k] : k \in DOMAIN Letters}
    \/ ch \in Range(DigitChars)

(* s[:n] *)
Take(s, n) == SubSeq(s, 1, Min(n, Len(s)))

(* str.strip() *)
RECURSIVE Strip(_)
Strip(s) ==
    IF s = <<>> THEN s
    ELSE IF Head(s) = " " THEN Strip(Tail(s))
    ELSE IF s[Len(s)] = " " THEN Strip(SubSeq(s, 1, Len(s) - 1))
    ELSE s

(* str(n) of a natural number *)
RECURSIVE Decimal(_)
Decimal(n) ==
    IF n < 10 THEN <<DigitChars[n + 1]>>
    ELSE Decimal(n \div 10) \o <<DigitChars[(n % 10) + 1]>>

(* f"{suffix:02d}" *)
Format02d(suffix) == IF suffix < 10 THEN <<"0">> \o Decimal(suffix) ELSE Decimal(suffix)

(* f"{base_code[:14]}{suffix:02d}"[:16] *)
SuffixedCode(base_code, suffix) == Take(Take(base_code, 14) \o Format02d(suffix), 16)

(* [:16] cuts digits off the suffix: the code is then the code of the     *)
(* smaller suffix made of the digits that are left                        *)
CutsSuffix(base_code, suffix) == Len(Take(base_code, 14)) + Len(Format02d(suffix)) > 16

BLDG == <<"B", "L", "D", "G">>

(* the while loop on the codes in use.  The loop has no exit but a free   *)
(* code: once [:16] cuts the next suffix, that code and every later one   *)
(* is a code the loop has found in use, and the loop does not return.     *)
RECURSIVE CodeLoop(_, _, _, _)
CodeLoop(codes, base_code, code, suffix) ==
    IF code \notin codes THEN [returned |-> TRUE, code |-> code, suffix |-> suffix]
    ELSE IF CutsSuffix(base_code, suffix + 1)
         THEN [returned |-> FALSE, code |-> code, suffix |-> suffix]
         ELSE CodeLoop(codes, base_code, SuffixedCode(base_code, suffix + 1), suffix + 1)

CodesOf(db) == {b.code : b \in db.buildings}

GenerateCode(db, base_code) == CodeLoop(CodesOf(db), base_code, base_code, 1)

(* base_code of create_building *)
PayloadBaseCode(building) ==
    LET raw_code == Strip(building.code)
        from_name == Take(SelectSeq(Upper(building.name),
                                    LAMBDA ch : IsAlnum(ch) \/ ch = "-"), 16)
    IN  IF raw_code = <<>>
        THEN (IF from_name = <<>> THEN BLDG ELSE from_name)
        ELSE Take(Upper(raw_code), 16)

(* base_code of resolve_building_for_import *)
LabelBaseCode(normalized) ==
    LET from_label == Take(SelectSeq(Upper(normalized),
                                     LAMBDA ch : IsAlnum(ch) \/ ch = "-"), 16)
    IN  IF from_label = <<>> THEN BLDG ELSE from_label

(* base_code of the row loop of import_readings *)
RowBaseCode(building_label) ==
    LET from_label == Take(SelectSeq(Upper(building_label), IsAlnum), 16)
    IN  IF from_label = <<>> THEN Take(building_label, 16) ELSE from_label

NamedBuilding(id, name, code) ==
    [Building(id, code, DefaultWaterThreshold, DefaultElectricityThreshold, NoZone)
        EXCEPT !.name = name]

(* what a code generation was called with and what came of it *)
CodeCall(path, db, base_code, gen) ==
    [ op        |-> "code",
      path      |-> path,
      codes     |-> CodesOf(db),
      base_code |-> base_code,
      returned  |-> gen.returned,
      code      |-> gen.code,
      suffix    |-> gen.suffix ]

MaxBuildings == 100

(* the code generation of a handler and the building it adds; a loop that *)
(* does not return leaves the request without an answer and the tables as *)
(* they are                                                               *)
AddBuilding(path, name, base_code) ==
    LET gen == GenerateCode(DB, base_code)
    IN  /\ next_id.building <= MaxBuildings
        /\ last' = CodeCall(path, DB, base_code, gen)
        /\ IF gen.returned
           THEN /\ buildings' = buildings \cup {NamedBuilding(next_id.building, name, gen.code)}
                /\ next_id' = [next_id EXCEPT !.building = @ + 1]
           ELSE UNCHANGED <<buildings, next_id>>
        /\ UNCHANGED <<readings, alerts, rules, sessions>>

(* POST /buildings *)
create_building(building) ==
    AddBuilding("create_building", building.name, PayloadBaseCode(building))

(* resolve_building_for_import *)
resolve_building_for_import(building_label) ==
    LET normalized == Strip(building_label)
    IN  IF normalized = <<>> \/ HasLabel(DB, normalized)
        THEN UNCHANGED vars
        ELSE AddBuilding("resolve_building_for_import", normalized,
                         LabelBaseCode(normalized))

(* the building of a row of import_readings *)
ImportRowBuilding(label) ==
    LET building_label == Strip(label)
    IN  IF building_label = <<>> \/ HasLabel(DB, building_label)
        THEN UNCHANGED vars
        ELSE AddBuilding("import_readings", building_label,
                         RowBaseCode(building_label))

InitCode ==
    /\ buildings = {}
    /\ readings = <<>>
    /\ alerts = <<>>
    /\ rules = <<>>
    /\ next_id = [reading |-> 1, rule |-> 1, building |-> 1, again |-> 1]
    /\ last = NoCall
    /\ sessions = NoSessions

(* the requests other than the long code come first *)
MaxOthers == 2

NextCode ==
    (* a code of 17 characters, cut to a base of 16 *)
    \/ create_building(([name |-> <<"L", "a", "b">>, code |-> <<" ">> \o Chars(17, "a")]))
    \/ /\ Cardinality(buildings) < MaxOthers
       /\ \E building \in { [name |-> <<"a", "-", "b", " ", "1">>, code |-> <<" ">>], [name |-> <<" ">>, code |-> <<>>] } : create_building(building)
    \/ /\ Cardinality(buildings) < MaxOthers
       /\ \E label \in { Chars(16, "a"), <<"a", "-", "b">>, <<" ">> } : resolve_building_for_import(label)
    \/ /\ Cardinality(buildings) < MaxOthers
       /\ \E label \in { Chars(16, "a"), <<"a", "-", "b">>, <<" ">> } : ImportRowBuilding(label)

SpecCode == InitCode /\ [][NextCode]_vars

(* C30: the code generation on collision always returns, with a code     *)
(* that no existing building uses, for every set of codes in use and     *)
(* every base code of up to 16 characters, also when the codes with      *)
(* suffix 02 to 99 of the base are all in use.                           *)
C30_CodeGenerationReturnsFreeCode ==
    last.op = "code" => last.returned /\ last.code \notin last.codes

====
